---- MODULE Spec2Model ----
(***************************************************************************)
(* Model of the timetabling engine of jak0d/timetiba (ai-service).         *)
(*                                                                         *)
(* CSPSolver.solve builds a CP-SAT model (one venue/lecturer/time integer  *)
(* variable per course session), installs the hard constraints, runs the   *)
(* search and extracts a schedule; CSPSolver.validate_solution scans any   *)
(* schedule for venue and lecturer collisions.  The CP-SAT constraints are *)
(* modelled as the code posts them, auxiliary booleans included: a         *)
(* constraint posted with OnlyEnforceIf(b) is the implication b => c, and  *)
(* an assignment of the session variables is a solution when some value of *)
(* the auxiliary booleans satisfies everything that was posted.            *)
(***************************************************************************)
EXTENDS Integers, Sequences, FiniteSets, TLC

VARIABLES
    op,          \* the operation that was called last
    variables,   \* CSPSolver.variables (insertion-ordered dict), kept by the instance
    model,       \* CSPSolver.model: the input the CP-SAT model was built from
    now,         \* the date datetime.now() reports, as a day number
    calls,       \* the solve calls that share the instance, each with its position
    request,     \* the argument of the last call
    response     \* what the last call returned

vars == <<op, variables, model, now, calls, request, response>>

----------------------------------------------------------------------------
(* Bounds of the model                                                     *)

MaxVenues == 2        \* venues of one solve call
MaxLecturers == 1     \* lecturers of one solve call
MaxSlots == 2         \* time slots of one solve call (the encoder emits 50)
MaxSessionVars == 2   \* session variables of one solve call
MaxSchedule == 3      \* sessions of a schedule given to the validator
MaxDate == 2          \* days the clock runs over while calls are repeated

----------------------------------------------------------------------------
(* Program constants                                                       *)

FirstHour == 8
HoursPerDay == 10
WeekDays == 5
ScoreOne == 10000     \* the score 1.0, in the units scores are kept in

None == [none |-> TRUE]

Min(S) == CHOOSE x \in S : \A y \in S : x <= y

Range(s) == {s[i] : i \in 1..Len(s)}

----------------------------------------------------------------------------
(* ConstraintEncoder._generate_time_slots: day-major grid of hour slots    *)

generate_time_slots ==
    [i \in 1..(WeekDays * HoursPerDay) |->
        [day_of_week |-> (i - 1) \div HoursPerDay,
         hour        |-> FirstHour + ((i - 1) % HoursPerDay)]]

(* The keys "0".."4" that _normalize_availability always leaves in place.  *)
WeekdayKeys == {ToString(d) : d \in 0..(WeekDays - 1)}

----------------------------------------------------------------------------
(* Inputs of solve: encoded entities                                       *)

VenueId(i) == "v" \o ToString(i)
LecturerId(i) == "l" \o ToString(i)
GroupId(i) == "g" \o ToString(i)
CourseId(i) == "c" \o ToString(i)

VenueChoices ==
    {[capacity |-> 30, equipment |-> {}],
     [capacity |-> 60, equipment |-> {"projector"}]}

Venues(choice) ==
    [i \in 1..Len(choice) |->
        [id |-> VenueId(i), capacity |-> choice[i].capacity,
         equipment |-> choice[i].equipment]]

VenueInputs ==
    {Venues(choice) :
        choice \in UNION {[1..n -> VenueChoices] : n \in 0..MaxVenues}}

(* Normalised availability: weekday key -> list of half-open intervals.    *)
NeverAvailable == [k \in WeekdayKeys |-> <<>>]

MondayNine ==
    [k \in WeekdayKeys |->
        IF k = "0" THEN <<[start_hour |-> 9, end_hour |-> 10]>> ELSE <<>>]

AvailabilityChoices == {NeverAvailable, MondayNine}

Lecturers(choice) ==
    [i \in 1..Len(choice) |-> [id |-> LecturerId(i), availability |-> choice[i]]]

LecturerInputs ==
    {Lecturers(choice) :
        choice \in UNION {[1..n -> AvailabilityChoices] : n \in 0..MaxLecturers}}

(* Two student groups of 20 and 40 students.                               *)
StudentGroups ==
    <<[id |-> GroupId(1), size |-> 20], [id |-> GroupId(2), size |-> 40]>>

GroupChoices == {{GroupId(1)}, {GroupId(2)}, {GroupId(1), GroupId(2)}}

(* Courses: the i-th course is named c<i> or repeats the id c1; at most    *)
(* MaxSessionVars sessions are asked for in all.                           *)
CourseChoices(equipment_choices, group_choices) ==
    [id : {CourseId(i) : i \in 1..MaxSessionVars},
     frequency : 1..MaxSessionVars,
     required_equipment : equipment_choices,
     student_groups : group_choices]

RECURSIVE SumFrequency(_, _)
SumFrequency(courses, i) ==
    IF i > Len(courses) THEN 0
    ELSE courses[i].frequency + SumFrequency(courses, i + 1)

CourseInputs(equipment_choices, group_choices) ==
    {cs \in UNION {[1..n -> CourseChoices(equipment_choices, group_choices)] :
                        n \in 0..MaxSessionVars} :
        /\ \A i \in 1..Len(cs) : cs[i].id \in {CourseId(1), CourseId(i)}
        /\ SumFrequency(cs, 1) <= MaxSessionVars}

SlotInputs == {SubSeq(generate_time_slots, 1, n) : n \in 0..MaxSlots}

----------------------------------------------------------------------------
(* CSPSolver._create_variables                                             *)

(* Mutant of SessionKey: the occurrence index is left out of the key.     *)
SessionKey_NoIndex(course_id, session_idx) ==
    course_id \o "_session"

SessionKey(course_id, session_idx) ==
    course_id \o "_session_" \o ToString(session_idx)

(* self.variables[session_key] = {...}: a dict keeps the position of a key *)
(* that is already present and replaces its value.                         *)
DictPut(dict, entry) ==
    IF \E k \in 1..Len(dict) : dict[k].key = entry.key
    THEN [k \in 1..Len(dict) |->
            IF dict[k].key = entry.key THEN entry ELSE dict[k]]
    ELSE Append(dict, entry)

RECURSIVE AddSessions(_, _, _)
AddSessions(dict, course, session_idx) ==
    IF session_idx >= course.frequency THEN dict
    ELSE AddSessions(
            DictPut(dict, [key |-> SessionKey(course.id, session_idx),
                           course_id |-> course.id,
                           session_index |-> session_idx]),
            course, session_idx + 1)

RECURSIVE create_variables_from(_, _, _)
create_variables_from(dict, courses, i) ==
    IF i > Len(courses) THEN dict
    ELSE create_variables_from(AddSessions(dict, courses[i], 0), courses, i + 1)

create_variables(ec) == create_variables_from(<<>>, ec.entities.courses, 1)

(* Domain of the three integer variables of one session:                   *)
(* NewIntVar(0, len(venues) - 1), (0, len(lecturers) - 1), (0, len(slots) - 1) *)
VarDomain(ec) ==
    [venue    : 0..(Len(ec.entities.venues) - 1),
     lecturer : 0..(Len(ec.entities.lecturers) - 1),
     time     : 0..(Len(ec.time_slots) - 1)]

(* next((c for c in courses if c["id"] == course_id), None)                *)
CourseById(courses, course_id) ==
    LET hits == {i \in 1..Len(courses) : courses[i].id = course_id}
    IN  IF hits = {} THEN None ELSE courses[Min(hits)]

(* sum(group.get("size", 0) for group in student_groups                    *)
(*     if group["id"] in course.get("student_groups", []))                 *)
RECURSIVE SumSizes(_, _, _)
SumSizes(student_groups, ids, i) ==
    IF i > Len(student_groups) THEN 0
    ELSE (IF student_groups[i].id \in ids THEN student_groups[i].size ELSE 0)
         + SumSizes(student_groups, ids, i + 1)

TotalStudents(ec, course) ==
    SumSizes(ec.entities.student_groups, course.student_groups, 1)

----------------------------------------------------------------------------
(* Hard constraints, as posted on the CP-SAT model.  a[k] is the value of  *)
(* the venue/lecturer/time variables of the k-th entry of self.variables.  *)

(* Mutant of CapacityForbids: the comparison is turned around.             *)
CapacityForbids_Reversed(total_students, venue_capacity) ==
    total_students < venue_capacity

(* _add_venue_capacity_constraints                                         *)
CapacityForbids(total_students, venue_capacity) ==
    total_students > venue_capacity

add_venue_capacity_constraints(ec, dict, a) ==
    \A k \in 1..Len(dict) :
        LET course == CourseById(ec.entities.courses, dict[k].course_id)
        IN  course # None =>
            \A venue_idx \in 0..(Len(ec.entities.venues) - 1) :
                \E venue_selected \in BOOLEAN :
                    /\ venue_selected => a[k].venue = venue_idx
                    /\ ~venue_selected => a[k].venue # venue_idx
                    /\ CapacityForbids(TotalStudents(ec, course),
                                       ec.entities.venues[venue_idx + 1].capacity)
                         => a[k].venue # venue_idx

(* availability.get(str(day_of_week), []) and the any(...) over its slots  *)
is_available(lecturer, time_slot) ==
    LET key == ToString(time_slot.day_of_week)
        day_availability ==
            IF key \in DOMAIN lecturer.availability
            THEN lecturer.availability[key] ELSE <<>>
    IN  \E s \in 1..Len(day_availability) :
            /\ day_availability[s].start_hour <= time_slot.hour
            /\ time_slot.hour < day_availability[s].end_hour

(* _add_lecturer_availability_constraints: both linking constraints are    *)
(* enforced only when their boolean is true, then                          *)
(* AddBoolOr([lecturer_selected.Not(), time_selected.Not()]).              *)
add_lecturer_availability_constraints(ec, dict, a) ==
    \A k \in 1..Len(dict) :
      \A lecturer_idx \in 0..(Len(ec.entities.lecturers) - 1) :
        \A time_idx \in 0..(Len(ec.time_slots) - 1) :
            ~is_available(ec.entities.lecturers[lecturer_idx + 1],
                         ec.time_slots[time_idx + 1]) =>
                \E lecturer_selected, time_selected \in BOOLEAN :
                    /\ lecturer_selected => a[k].lecturer = lecturer_idx
                    /\ time_selected => a[k].time = time_idx
                    /\ ~lecturer_selected \/ ~time_selected

(* _add_no_double_booking_constraints: same_venue, same_lecturer and       *)
(* same_time are tied to the variables in both directions; the two         *)
(* conflict booleans are tied by AddBoolAnd(...).OnlyEnforceIf(conflict)   *)
(* and then fixed to 0.                                                    *)
add_no_double_booking_constraints(ec, dict, a) ==
    \A i \in 1..Len(dict) :
      \A j \in (i + 1)..Len(dict) :
        \E same_venue, same_lecturer, same_time,
           venue_time_conflict, lecturer_time_conflict \in BOOLEAN :
            /\ same_venue => a[i].venue = a[j].venue
            /\ ~same_venue => a[i].venue # a[j].venue
            /\ same_lecturer => a[i].lecturer = a[j].lecturer
            /\ ~same_lecturer => a[i].lecturer # a[j].lecturer
            /\ same_time => a[i].time = a[j].time
            /\ ~same_time => a[i].time # a[j].time
            /\ venue_time_conflict => (same_venue /\ same_time)
            /\ venue_time_conflict = FALSE
            /\ lecturer_time_conflict => (same_lecturer /\ same_time)
            /\ lecturer_time_conflict = FALSE

(* Mutant of has_all_equipment: issubset is called on the wrong set.         *)
has_all_equipment_reversed(required_equipment, venue_equipment) ==
    venue_equipment \subseteq required_equipment

(* _add_equipment_constraints                                              *)
has_all_equipment(required_equipment, venue_equipment) ==
    required_equipment \subseteq venue_equipment

add_equipment_constraints(ec, dict, a) ==
    \A k \in 1..Len(dict) :
        LET course == CourseById(ec.entities.courses, dict[k].course_id)
        IN  (course # None /\ course.required_equipment # {}) =>
            \A venue_idx \in 0..(Len(ec.entities.venues) - 1) :
                ~has_all_equipment(course.required_equipment,
                                 ec.entities.venues[venue_idx + 1].equipment)
                    => a[k].venue # venue_idx

(* _add_hard_constraints                                                   *)
add_hard_constraints(ec, dict, a) ==
    /\ add_venue_capacity_constraints(ec, dict, a)
    /\ add_lecturer_availability_constraints(ec, dict, a)
    /\ add_no_double_booking_constraints(ec, dict, a)
    /\ add_equipment_constraints(ec, dict, a)

(* The assignments CP-SAT may report as OPTIMAL or FEASIBLE.  The soft     *)
(* constraints only add booleans b with "b => ...", and the objective is a *)
(* sum of such booleans, so neither removes an assignment; with zero       *)
(* weights or an expired budget any of them can be the one returned.       *)
Assignments(ec, dict) ==
    {a \in [1..Len(dict) -> VarDomain(ec)] : add_hard_constraints(ec, dict, a)}

----------------------------------------------------------------------------
(* CSPSolver.validate_solution                                             *)

(* Mutant of TimeKey: the day is left out of the key.                     *)
TimeKey_HourOnly(session) ==
    ToString(session.start_hour)

(* time_key = f"{session.day_of_week}_{session.start_time.hour}"           *)
TimeKey(session) ==
    ToString(session.day_of_week) \o "_" \o ToString(session.start_hour)

(* One iteration of the loop of _validate_hard_constraints.  st carries    *)
(* venue_bookings and lecturer_bookings (as sets of <<id, time_key>>),     *)
(* violations, total_checks and passed_checks.                             *)
VenueCollides(st, session) ==
    <<session.venue_id, TimeKey(session)>> \in st.venue_bookings

LecturerCollides(st, session) ==
    <<session.lecturer_id, TimeKey(session)>> \in st.lecturer_bookings

CheckSession(st, session) ==
    LET time_key == TimeKey(session)
        venue_hit == VenueCollides(st, session)
        lecturer_hit == LecturerCollides(st, session)
        venue_violation ==
            [type |-> "venue_double_booking", venue_id |-> session.venue_id,
             time |-> time_key, sessions |-> <<session.id>>]
        lecturer_violation ==
            [type |-> "lecturer_double_booking", lecturer_id |-> session.lecturer_id,
             time |-> time_key, sessions |-> <<session.id>>]
    IN  [venue_bookings |->
            st.venue_bookings \cup {<<session.venue_id, time_key>>},
         lecturer_bookings |->
            st.lecturer_bookings \cup {<<session.lecturer_id, time_key>>},
         violations |->
            st.violations
              \o (IF venue_hit THEN <<venue_violation>> ELSE <<>>)
              \o (IF lecturer_hit THEN <<lecturer_violation>> ELSE <<>>),
         total_checks |-> st.total_checks + 2,
         passed_checks |->
            st.passed_checks + (IF venue_hit THEN 0 ELSE 1)
                             + (IF lecturer_hit THEN 0 ELSE 1)]

RECURSIVE CheckSessions(_, _, _)
CheckSessions(st, sessions, i) ==
    IF i > Len(sessions) THEN st
    ELSE CheckSessions(CheckSession(st, sessions[i]), sessions, i + 1)

(* _validate_hard_constraints: the score passed_checks / total_checks is   *)
(* kept as the pair of its numerator and denominator.                      *)
validate_hard_constraints(sessions) ==
    CheckSessions([venue_bookings |-> {}, lecturer_bookings |-> {},
                   violations |-> <<>>, total_checks |-> 0, passed_checks |-> 0],
                  sessions, 1)

(* hard_constraint_score < 1.0, with score = passed / total if total > 0   *)
(* else 1.0                                                                *)
HardScoreBelowOne(st) ==
    st.total_checks > 0 /\ st.passed_checks < st.total_checks

(* Scores are fractions of 1.0, kept in units of 1/ScoreOne and rounded     *)
(* down where a quotient is not a whole number of units.                   *)
NonNegative(x) == IF x < 0 THEN 0 ELSE x

Abs(x) == IF x < 0 THEN -x ELSE x

(* score = passed_checks / total_checks if total_checks > 0 else 1.0       *)
hard_constraint_score(st) ==
    IF st.total_checks > 0
    THEN (ScoreOne * st.passed_checks) \div st.total_checks
    ELSE ScoreOne

(* venue_usage / lecturer_workload: sessions counted per id                *)
UsageOf(sessions, ids, id_of(_)) ==
    [id \in ids |-> Cardinality({i \in 1..Len(sessions) : id_of(sessions[i]) = id})]

RECURSIVE SumAbsDeviation(_, _, _)
SumAbsDeviation(usage, ids, total) ==
    IF ids = {} THEN 0
    ELSE LET id == CHOOSE x \in ids : TRUE
         IN  Abs(usage[id] * Cardinality(DOMAIN usage) - total)
             + SumAbsDeviation(usage, ids \ {id}, total)

(* max(0.0, 1.0 - variance / ideal) with ideal = total / n and             *)
(* variance = sum(abs(count - ideal)) / n, that is                         *)
(* 1 - sum(abs(n * count - total)) / (n * total)                           *)
BalanceScore(usage, total) ==
    LET n == Cardinality(DOMAIN usage)
    IN  NonNegative(ScoreOne
            - (ScoreOne * SumAbsDeviation(usage, DOMAIN usage, total))
                \div (n * total))

SessionVenue(session) == session.venue_id

SessionLecturer(session) == session.lecturer_id

(* _calculate_venue_utilization_score                                      *)
calculate_venue_utilization_score(sessions) ==
    IF Len(sessions) = 0 THEN 0
    ELSE BalanceScore(
            UsageOf(sessions, {sessions[i].venue_id : i \in 1..Len(sessions)},
                    SessionVenue),
            Len(sessions))

(* _calculate_lecturer_satisfaction_score                                  *)
calculate_lecturer_satisfaction_score(sessions) ==
    IF Len(sessions) = 0 THEN ScoreOne
    ELSE BalanceScore(
            UsageOf(sessions, {sessions[i].lecturer_id : i \in 1..Len(sessions)},
                    SessionLecturer),
            Len(sessions))

Max(S) == CHOOSE x \in S : \A y \in S : x >= y

(* gaps of one group on one day: the hours are sorted and                  *)
(* sum(hours[i+1] - hours[i] - 1) telescopes to last - first - (len - 1);  *)
(* a single session has no gap term.                                       *)
DayGaps(sessions, group_id, day) ==
    LET mine == {i \in 1..Len(sessions) :
                    /\ group_id \in sessions[i].student_groups
                    /\ sessions[i].day_of_week = day}
        hours == {sessions[i].start_hour : i \in mine}
    IN  IF Cardinality(mine) > 1
        THEN Max(hours) - Min(hours) - (Cardinality(mine) - 1)
        ELSE 0

RECURSIVE SumDayGaps(_, _)
SumDayGaps(sessions, group_days) ==
    IF group_days = {} THEN 0
    ELSE LET gd == CHOOSE x \in group_days : TRUE
         IN  DayGaps(sessions, gd[1], gd[2])
             + SumDayGaps(sessions, group_days \ {gd})

(* _calculate_student_convenience_score: max_possible_gap is 8             *)
calculate_student_convenience_score(sessions) ==
    LET group_days ==
            {<<g, sessions[i].day_of_week>> :
                g \in UNION {sessions[j].student_groups : j \in 1..Len(sessions)},
                i \in 1..Len(sessions)}
        group_schedules ==
            {gd \in group_days :
                \E i \in 1..Len(sessions) :
                    /\ gd[1] \in sessions[i].student_groups
                    /\ gd[2] = sessions[i].day_of_week}
        total_days == Cardinality(group_schedules)
    IN  IF Len(sessions) = 0 \/ total_days = 0 THEN ScoreOne
        ELSE NonNegative(ScoreOne
                - (ScoreOne * SumDayGaps(sessions, group_schedules))
                    \div (8 * total_days))

(* _calculate_efficiency_score: used slots out of the 50 of a week; a rate *)
(* below 0.6 scores rate / 0.6, a rate up to 0.8 scores 1.0, a higher one  *)
(* max(0.0, 1.0 - (rate - 0.8) / 0.2).                                     *)
calculate_efficiency_score(sessions) ==
    LET used_slots == {TimeKey(sessions[i]) : i \in 1..Len(sessions)}
        used == Cardinality(used_slots)
        total_available_slots == WeekDays * HoursPerDay
    IN  IF Len(sessions) = 0 THEN 0
        ELSE IF 10 * used < 6 * total_available_slots
             THEN (ScoreOne * used * 10) \div (6 * total_available_slots)
        ELSE IF 10 * used <= 8 * total_available_slots
             THEN ScoreOne
        ELSE NonNegative(ScoreOne
                - (ScoreOne * (10 * used - 8 * total_available_slots))
                    \div (2 * total_available_slots))

(* overall_score = hard * 0.4 + venue * 0.15 + lecturer * 0.2              *)
(*                 + student * 0.15 + efficiency * 0.1                     *)
overall_score(sol, st) ==
    LET feasible == sol.is_feasible
        venue_utilization ==
            IF feasible THEN calculate_venue_utilization_score(sol.sessions) ELSE 0
        lecturer_satisfaction ==
            IF feasible THEN calculate_lecturer_satisfaction_score(sol.sessions) ELSE 0
        student_convenience ==
            IF feasible THEN calculate_student_convenience_score(sol.sessions) ELSE 0
        overall_efficiency ==
            IF feasible THEN calculate_efficiency_score(sol.sessions) ELSE 0
    IN  (hard_constraint_score(st) * 40 + venue_utilization * 15
         + lecturer_satisfaction * 20 + student_convenience * 15
         + overall_efficiency * 10) \div 100

validate_solution(sol) ==
    LET st == validate_hard_constraints(sol.sessions)
        conflicts == IF HardScoreBelowOne(st) THEN st.violations ELSE <<>>
    IN  [is_valid |-> Len(conflicts) = 0,
         score |-> overall_score(sol, st),
         conflicts |-> conflicts,
         constraint_violations |-> st.violations]

----------------------------------------------------------------------------
(* CSPSolver._extract_solution.  start_time and end_time are               *)
(* datetime.now().replace(hour=...): the date of the call with the hour of *)
(* the slot.                                                               *)

extract_session(ec, entry, value, today) ==
    LET venue == ec.entities.venues[value.venue + 1]
        lecturer == ec.entities.lecturers[value.lecturer + 1]
        time_slot == ec.time_slots[value.time + 1]
        course == CourseById(ec.entities.courses, entry.course_id)
    IN  [id |-> entry.key,
         course_id |-> entry.course_id,
         lecturer_id |-> lecturer.id,
         venue_id |-> venue.id,
         student_groups |-> IF course # None THEN course.student_groups ELSE {},
         date |-> today,
         start_hour |-> time_slot.hour,
         end_hour |-> time_slot.hour + 1,
         day_of_week |-> time_slot.day_of_week]

extract_solution(ec, dict, a, today) ==
    LET sessions ==
            [k \in 1..Len(dict) |-> extract_session(ec, dict[k], a[k], today)]
        validation_result ==
            validate_solution([sessions |-> sessions, is_feasible |-> TRUE])
    IN  [sessions |-> sessions,
         score |-> validation_result.score,
         is_feasible |-> TRUE,
         conflicts |-> validation_result.conflicts]

(* _analyze_infeasibility and the else branch of solve                     *)
analyze_infeasibility ==
    <<[type |-> "infeasible_problem",
       message |-> "No feasible solution found with current constraints",
       suggestion |-> "Consider relaxing some constraints or adding more resources"]>>

InfeasibleSolution ==
    [sessions |-> <<>>, score |-> 0, is_feasible |-> FALSE,
     conflicts |-> analyze_infeasibility]

(* Mutant of SolverErrorSolution: the exception leaves solve.              *)
SolverErrorSolution_Reraised == [raised |-> "Exception"]

(* the except branch of solve                                              *)
SolverErrorSolution ==
    [sessions |-> <<>>, score |-> 0, is_feasible |-> FALSE,
     conflicts |-> <<[type |-> "solver_error"]>>]

----------------------------------------------------------------------------
(* Exceptions while the soft constraints are added.                        *)

(* _add_balance_constraints posts total_venue_sessions <= len(variables) * *)
(* 0.8, a float bound, for the first venue once there is a session; when   *)
(* the OR-Tools build rejects it with a TypeError, solve skips the rest of *)
(* _add_soft_constraints.                                                  *)
BalanceRaisesTypeError(ec, dict, float_rejected) ==
    float_rejected /\ Len(ec.entities.venues) > 0 /\ Len(dict) > 0

(* _add_student_convenience_constraints calls _add_group_gap_minimization  *)
(* for a group of more than one course with more than one session; that    *)
(* method reads the name encoded_constraints, which it does not define.    *)
GroupGapMinimizationCalled(ec, dict) ==
    \E g \in 1..Len(ec.entities.student_groups) :
        LET group_id == ec.entities.student_groups[g].id
            group_courses ==
                {i \in 1..Len(ec.entities.courses) :
                    group_id \in ec.entities.courses[i].student_groups}
            group_sessions ==
                {k \in 1..Len(dict) :
                    \E i \in group_courses :
                        ec.entities.courses[i].id = dict[k].course_id}
        IN  Cardinality(group_courses) > 1 /\ Cardinality(group_sessions) > 1

RaisesNameError(ec, dict, float_rejected) ==
    /\ ~BalanceRaisesTypeError(ec, dict, float_rejected)
    /\ GroupGapMinimizationCalled(ec, dict)

----------------------------------------------------------------------------
(* CSPSolver.solve                                                         *)

(* Every result solve can return for one input: the NameError is caught by *)
(* the outer handler; otherwise the search reports one of the assignments  *)
(* (OPTIMAL or FEASIBLE), or none (INFEASIBLE, MODEL_INVALID for an empty  *)
(* domain, or UNKNOWN when the time budget expires first).                 *)
SolveResults(ec, dict, float_rejected, today) ==
    IF RaisesNameError(ec, dict, float_rejected)
    THEN {SolverErrorSolution}
    ELSE {extract_solution(ec, dict, a, today) : a \in Assignments(ec, dict)}
         \cup {InfeasibleSolution}

Encoded(venues, lecturers, courses, time_slots) ==
    [entities |-> [venues |-> venues, lecturers |-> lecturers,
                   courses |-> courses, student_groups |-> StudentGroups],
     time_slots |-> time_slots]

(* The requests of the model vary the venues and the courses around one    *)
(* lecturer and the Monday 09:00 slot, or the lecturers and the slots      *)
(* around one large venue.                                                 *)
VenueSideInputs ==
    {Encoded(v, Lecturers(<<MondayNine>>), c, SubSeq(generate_time_slots, 2, 2)) :
        v \in VenueInputs, c \in CourseInputs({{}, {"projector"}}, GroupChoices)}

LecturerSideInputs ==
    {Encoded(Venues(<<[capacity |-> 60, equipment |-> {"projector"}]>>), l, c, t) :
        l \in LecturerInputs, t \in SlotInputs,
        c \in CourseInputs({{}}, {{GroupId(1)}, {GroupId(2)}})}

EncodedInputs == VenueSideInputs \cup LecturerSideInputs

(* Schedules given to validate_solution                                    *)
SlotChoices == {<<0, 9>>, <<0, 10>>, <<1, 9>>}

SessionChoices ==
    [venue_id : {VenueId(1), VenueId(2)},
     lecturer_id : {LecturerId(1), LecturerId(2)},
     student_groups : {{GroupId(1)}, {GroupId(2)}},
     slot : SlotChoices]

ScheduleOf(choice, is_feasible) ==
    [sessions |->
        [i \in 1..Len(choice) |->
            [id |-> "s" \o ToString(i),
             course_id |-> CourseId(i),
             lecturer_id |-> choice[i].lecturer_id,
             venue_id |-> choice[i].venue_id,
             student_groups |-> choice[i].student_groups,
             start_hour |-> choice[i].slot[2],
             end_hour |-> choice[i].slot[2] + 1,
             day_of_week |-> choice[i].slot[1]]],
     is_feasible |-> is_feasible]

(* Schedules of up to max_sessions sessions flagged feasible, and shorter   *)
(* ones flagged infeasible.                                                *)
ScheduleInputs(max_sessions) ==
    {ScheduleOf(choice, is_feasible) :
        <<choice, is_feasible>> \in
            {p \in (UNION {[1..n -> SessionChoices] : n \in 0..max_sessions})
                        \X BOOLEAN :
                p[2] \/ Len(p[1]) < max_sessions}}

----------------------------------------------------------------------------
(* The state machine: a request arrives at the service (Init) and the      *)
(* handler it names runs to completion.  solve rebuilds self.variables     *)
(* from its argument and validate_solution reads no field of the instance, *)
(* so a response depends on the request alone.                             *)

Init ==
    /\ variables = <<>>
    /\ model = None
    /\ now = 1
    /\ calls = <<>>
    /\ response = None
    /\ \/ op = "solve" /\ request \in EncodedInputs
       \/ op = "validate" /\ request \in ScheduleInputs(MaxSchedule)

Solve ==
    /\ op = "solve"
    /\ response = None
    /\ \E float_rejected \in BOOLEAN :
        LET dict == create_variables(request)
        IN  /\ variables' = dict
            /\ model' = request
            /\ response' \in SolveResults(request, dict, float_rejected, now)
    /\ UNCHANGED <<op, request, now, calls>>

Validate ==
    /\ op = "validate"
    /\ response = None
    /\ response' = validate_solution(request)
    /\ UNCHANGED <<op, request, variables, model, now, calls>>

Next == Solve \/ Validate

Spec == Init /\ [][Next]_vars

----------------------------------------------------------------------------
(* Two solve calls on the one CSPSolver of the service.  solve keeps the   *)
(* CP-SAT model, the solver and the session variables in fields of the     *)
(* instance (self.model, self.solver, self.variables) and reads them back  *)
(* when it runs the search and extracts the schedule.                      *)

Calls == {1, 2}

(* Requests of these calls: one projector room or more, one lecturer, one  *)
(* course of one or more sessions (or two courses of one group), and the   *)
(* first slot or slots of the grid.                                        *)
CallCourses ==
    {<<[id |-> CourseId(1), frequency |-> f, required_equipment |-> {},
        student_groups |-> {GroupId(1)}]>> : f \in 1..MaxSessionVars}
    \cup
    {<<[id |-> CourseId(1), frequency |-> 1, required_equipment |-> {},
        student_groups |-> {GroupId(1)}],
       [id |-> CourseId(2), frequency |-> 1, required_equipment |-> {},
        student_groups |-> {GroupId(1)}]>>}

CallInputs ==
    {Encoded(Venues([i \in 1..n |-> [capacity |-> 60, equipment |-> {"projector"}]]),
             Lecturers(<<MondayNine>>), c, SubSeq(generate_time_slots, 1, 1)) :
        n \in 1..MaxVenues, c \in CallCourses}

NewCall(ec, float_rejected) ==
    [pc |-> "start", request |-> ec, float_rejected |-> float_rejected,
     response |-> None]

(* The installed OR-Tools build either rejects a float bound or accepts    *)
(* it, for every call alike.                                               *)
SharedInit ==
    /\ op = "shared"
    /\ variables = <<>>
    /\ model = None
    /\ now = 1
    /\ request = None
    /\ response = None
    /\ \E float_rejected \in BOOLEAN :
          calls \in [Calls -> {NewCall(ec, float_rejected) : ec \in CallInputs}]

RepeatInit ==
    /\ op = "repeat"
    /\ variables = <<>>
    /\ model = None
    /\ now = 1
    /\ request = None
    /\ response = None
    /\ \E float_rejected \in BOOLEAN, ec \in CallInputs :
          calls = [c \in Calls |-> NewCall(ec, float_rejected)]

(* _extract_solution indexes the venues, lecturers and time slots of its   *)
(* own argument with the values of self.variables; an index out of range   *)
(* raises IndexError, which the except branch of solve turns into a        *)
(* solver_error result.                                                    *)
InRange(ec, value) ==
    /\ value.venue < Len(ec.entities.venues)
    /\ value.lecturer < Len(ec.entities.lecturers)
    /\ value.time < Len(ec.time_slots)

extract_or_error(ec, dict, a, today) ==
    IF \A k \in 1..Len(dict) : InRange(ec, a[k])
    THEN extract_solution(ec, dict, a, today)
    ELSE SolverErrorSolution

(* Lines 65-87 of solve: self.model and self.solver are replaced,          *)
(* _create_variables replaces self.variables, and the constraints of the   *)
(* argument are posted on self.model.  An exception that leaves the inner  *)
(* handlers ends the call with a solver_error result.                      *)
BuildModel(c) ==
    /\ op = "shared"
    /\ calls[c].pc = "start"
    /\ LET ec == calls[c].request
           dict == create_variables(ec)
       IN  /\ variables' = dict
           /\ model' = ec
           /\ calls' =
                IF RaisesNameError(ec, dict, calls[c].float_rejected)
                THEN [calls EXCEPT ![c].pc = "done",
                                   ![c].response = SolverErrorSolution]
                ELSE [calls EXCEPT ![c].pc = "built"]
    /\ UNCHANGED <<op, now, request, response>>

(* Lines 90-111 of solve: self.solver.Solve(self.model), then              *)
(* _extract_solution over self.variables with the call's own argument.     *)
SearchAndExtract(c) ==
    /\ op = "shared"
    /\ calls[c].pc = "built"
    /\ \E result \in
            {extract_or_error(calls[c].request, variables, a, now) :
                a \in Assignments(model, variables)}
            \cup {InfeasibleSolution} :
          calls' = [calls EXCEPT ![c].pc = "done", ![c].response = result]
    /\ UNCHANGED <<op, variables, model, now, request, response>>

SharedNext == \E c \in Calls : BuildModel(c) \/ SearchAndExtract(c)

SharedSpec == SharedInit /\ [][SharedNext]_vars

(* The same two calls, one after the other: each solve runs from its first *)
(* line to its return before the next one starts.                          *)
SolveCall(c) ==
    /\ op = "repeat"
    /\ calls[c].pc = "start"
    /\ LET ec == calls[c].request
           dict == create_variables(ec)
       IN  /\ variables' = dict
           /\ model' = ec
           /\ \E result \in SolveResults(ec, dict, calls[c].float_rejected, now) :
                 calls' = [calls EXCEPT ![c].pc = "done", ![c].response = result]
    /\ UNCHANGED <<op, now, request, response>>

(* Time passes between two calls.                                          *)
Tick ==
    /\ op = "repeat"
    /\ now < MaxDate
    /\ now' = now + 1
    /\ UNCHANGED <<op, variables, model, calls, request, response>>

RepeatNext == (\E c \in Calls : SolveCall(c)) \/ Tick

RepeatSpec == RepeatInit /\ [][RepeatNext]_vars

----------------------------------------------------------------------------
(* ConflictAnalyzer: helpers                                               *)

(* {}                                                                      *)
EmptyDict == [key \in {} |-> None]

(* dict.get(key, default)                                                  *)
Get(d, key, default) == IF key \in DOMAIN d THEN d[key] ELSE default

(* The outcome of a method that can raise: the value it returns, or the    *)
(* exception that leaves it.                                               *)
Returned(value) == [returned |-> value]

Raised(exception) == [raised |-> exception]

IsRaised(outcome) == "raised" \in DOMAIN outcome

(* {e['id']: e for e in entity_list}, in insertion order                   *)
RECURSIVE IndexByIdFrom(_, _, _)
IndexByIdFrom(dict, entity_list, i) ==
    IF i > Len(entity_list) THEN dict
    ELSE IndexByIdFrom(
            DictPut(dict, [key |-> entity_list[i].id, value |-> entity_list[i]]),
            entity_list, i + 1)

IndexById(entity_list) == IndexByIdFrom(<<>>, entity_list, 1)

(* index.values()                                                          *)
Values(index) == [k \in 1..Len(index) |-> index[k].value]

(* index.get(id): None when the id is not a key                            *)
Lookup(index, id) ==
    LET hits == {k \in 1..Len(index) : index[k].key = id}
    IN  IF hits = {} THEN None ELSE index[Min(hits)].value

(* The indices i..n that are in kept, in increasing order.                 *)
RECURSIVE IndicesIn(_, _, _)
IndicesIn(kept, i, n) ==
    IF i > n THEN <<>>
    ELSE (IF i \in kept THEN <<i>> ELSE <<>>) \o IndicesIn(kept, i + 1, n)

(* [x for x in seq if keep(x)]                                             *)
FilterSeq(seq, keep(_)) ==
    LET kept == {i \in 1..Len(seq) : keep(seq[i])}
        indices == IndicesIn(kept, 1, Len(seq))
    IN  [k \in 1..Len(indices) |-> seq[indices[k]]]

(* seq[:n] for n >= 0                                                      *)
Take(seq, n) == SubSeq(seq, 1, IF n < Len(seq) THEN n ELSE Len(seq))

(* sorted(seq, key=...): a stable sort; Before(x, y) says that the key of  *)
(* x is smaller than the key of y.  An element comes after those with a    *)
(* smaller key and after the earlier ones with an equal key.               *)
Sorted(seq, Before(_, _)) ==
    LET ahead ==
            [i \in 1..Len(seq) |->
                Cardinality({j \in 1..Len(seq) :
                                \/ Before(seq[j], seq[i])
                                \/ ~Before(seq[i], seq[j]) /\ j < i})]
    IN  [k \in 1..Len(seq) |->
            seq[CHOOSE i \in 1..Len(seq) : ahead[i] = k - 1]]

(* A score written in tenths (0.8 is Tenths(8)), in the units of ScoreOne. *)
Tenths(n) == (n * ScoreOne) \div 10

Clamp(x) == IF x < 0 THEN 0 ELSE IF x > ScoreOne THEN ScoreOne ELSE x

(* ResolutionSuggestion.__init__ with _calculate_confidence; the texts     *)
(* (description, impact_description) are left out.  They quote the 'name'  *)
(* of a venue or lecturer, which every entity of the model is taken to     *)
(* have.                                                                   *)
effort_penalty(effort_level) ==
    IF effort_level = "low" THEN 0
    ELSE IF effort_level = "medium" THEN Tenths(1)
    ELSE Tenths(2)

ResolutionSuggestion(resolution_id, resolution_type, affected_sessions, parameters, score, effort_level) ==
    [resolution_id |-> resolution_id,
     resolution_type |-> resolution_type,
     affected_sessions |-> affected_sessions,
     parameters |-> parameters,
     score |-> score,
     effort_level |-> effort_level,
     confidence |-> Clamp(score - effort_penalty(effort_level))]

(* f"{day_names[day]} {hour:02d}:00"                                       *)
day_names == <<"Monday", "Tuesday", "Wednesday", "Thursday", "Friday">>

TimeStr(day, hour) ==
    day_names[day + 1] \o " "
        \o (IF hour < 10 THEN "0" ELSE "") \o ToString(hour) \o ":00"

----------------------------------------------------------------------------
(* ConflictAnalyzer: the finders (the last definition of each method in    *)
(* the class is the one Python binds)                                      *)

(* sum(student_groups.get(group_id, {}).get('size', 0) for group_id in ...) *)
RECURSIVE required_capacity(_, _)
required_capacity(group_ids, student_groups) ==
    IF group_ids = {} THEN 0
    ELSE LET group_id == CHOOSE x \in group_ids : TRUE
             group == Lookup(student_groups, group_id)
         IN  (IF group = None THEN 0 ELSE Get(group, "size", 0))
             + required_capacity(group_ids \ {group_id}, student_groups)

(* _find_alternative_venues                                                *)
find_alternative_venues(session, venues, entities) ==
    LET courses == IndexById(entities.courses)
        student_groups == IndexById(entities.student_groups)
        course == Lookup(courses, session.course_id)
        required_equipment ==
            IF course # None THEN Get(course, "required_equipment", {}) ELSE {}
        capacity_needed == required_capacity(session.student_groups, student_groups)
        suitable_venues ==
            FilterSeq(Values(venues),
                      LAMBDA venue :
                        /\ venue.id # session.venue_id
                        /\ ~(Get(venue, "capacity", 0) < capacity_needed)
                        /\ required_equipment \subseteq Get(venue, "equipment", {}))
    IN  Sorted(suitable_venues,
               LAMBDA x, y : Get(x, "capacity", 0) < Get(y, "capacity", 0))

(* possible_days = range(5), possible_hours = range(9, 17), day by day     *)
possible_hours == 9..16

possible_slots ==
    [i \in 1..(WeekDays * Cardinality(possible_hours)) |->
        [day  |-> (i - 1) \div Cardinality(possible_hours),
         hour |-> Min(possible_hours) + ((i - 1) % Cardinality(possible_hours))]]

(* Mutant of time_slot_free: the student groups are not compared.          *)
time_slot_free_NoGroups(session, all_sessions, slot) ==
    ~\E k \in 1..Len(all_sessions) :
        LET other_session == all_sessions[k]
        IN  /\ other_session.day_of_week = slot.day
            /\ other_session.start_hour = slot.hour
            /\ \/ other_session.venue_id = session.venue_id
               \/ other_session.lecturer_id = session.lecturer_id

time_slot_free(session, all_sessions, slot) ==
    ~\E k \in 1..Len(all_sessions) :
        LET other_session == all_sessions[k]
        IN  /\ other_session.day_of_week = slot.day
            /\ other_session.start_hour = slot.hour
            /\ \/ other_session.venue_id = session.venue_id
               \/ other_session.lecturer_id = session.lecturer_id
               \/ other_session.student_groups \cap session.student_groups # {}

(* _find_alternative_times: the scan stops at five alternatives            *)
find_alternative_times(session, all_sessions) ==
    LET free ==
            FilterSeq(possible_slots,
                      LAMBDA slot :
                        /\ ~(slot.day = session.day_of_week
                             /\ slot.hour = session.start_hour)
                        /\ time_slot_free(session, all_sessions, slot))
        first_five == Take(free, 5)
    IN  [k \in 1..Len(first_five) |-> TimeStr(first_five[k].day, first_five[k].hour)]

(* _find_alternative_lecturers                                             *)
find_alternative_lecturers(course, lecturers, all_sessions) ==
    LET course_subjects == Get(course, "subjects", {})
    IN  FilterSeq(Values(lecturers),
                  LAMBDA lecturer :
                    /\ ~("lecturer_id" \in DOMAIN course
                         /\ lecturer.id = course.lecturer_id)
                    /\ Get(lecturer, "subjects", {}) \cap course_subjects # {}
                    /\ Cardinality({k \in 1..Len(all_sessions) :
                                      all_sessions[k].lecturer_id = lecturer.id})
                         < Get(lecturer, "max_hours_per_week", 40))

(* Values of a lecturer's availability, with their Python type: a dict     *)
(* such as {'available': True}, a list of intervals, or a boolean.         *)
AsDict(d) == [type |-> "dict", value |-> d]

AsList(l) == [type |-> "list", value |-> l]

AsBool(b) == [type |-> "bool", value |-> b]

lower_day_names == <<"monday", "tuesday", "wednesday", "thursday", "friday">>

lecturer_free(lecturer, all_sessions, day_idx, hour) ==
    ~\E k \in 1..Len(all_sessions) :
        /\ all_sessions[k].lecturer_id = lecturer.id
        /\ all_sessions[k].day_of_week = day_idx
        /\ all_sessions[k].start_hour = hour

(* _find_lecturer_available_times: day_availability.get('available', False) *)
(* is called on whatever the day's entry is; a list or a boolean has no    *)
(* get and raises AttributeError.                                          *)
RECURSIVE available_times_from(_, _, _, _)
available_times_from(lecturer, all_sessions, day_idx, available_times) ==
    IF day_idx >= Len(lower_day_names) THEN Returned(available_times)
    ELSE LET availability == Get(lecturer, "availability", EmptyDict)
             day_availability ==
                 Get(availability, lower_day_names[day_idx + 1], AsDict(EmptyDict))
             hours == [h \in 1..Cardinality(possible_hours) |->
                          Min(possible_hours) + h - 1]
             free_hours ==
                 FilterSeq(hours,
                           LAMBDA hour :
                             lecturer_free(lecturer, all_sessions, day_idx, hour))
             found ==
                 Take(available_times
                        \o [k \in 1..Len(free_hours) |-> TimeStr(day_idx, free_hours[k])],
                      5)
         IN  IF day_availability.type # "dict" THEN Raised("AttributeError")
             ELSE IF Get(day_availability.value, "available", FALSE)
                  THEN IF Len(found) >= 5 THEN Returned(found)
                       ELSE available_times_from(lecturer, all_sessions,
                                                 day_idx + 1, found)
             ELSE available_times_from(lecturer, all_sessions,
                                       day_idx + 1, available_times)

find_lecturer_available_times(lecturer, all_sessions) ==
    available_times_from(lecturer, all_sessions, 0, <<>>)

----------------------------------------------------------------------------
(* ConflictAnalyzer: one resolution strategy per conflict kind.  Each      *)
(* operator gives the suggestions appended for one conflict of the kind.   *)

(* [s for s in solution.sessions if s.id in conflict.get('session_ids', [])] *)
affected_sessions_of(conflict, solution) ==
    FilterSeq(solution.sessions,
              LAMBDA session :
                session.id \in Range(Get(conflict, "session_ids", <<>>)))

(* 'new_venue_id' and the ids of alternative_venues[:3]                    *)
VenueIds(venue_list) == [k \in 1..Len(venue_list) |-> venue_list[k].id]

(* _generate_venue_conflict_resolutions                                    *)
venue_conflict_resolutions(conflict, solution, entities) ==
    LET venues == IndexById(entities.venues)
        affected == affected_sessions_of(conflict, solution)
        session1 == affected[1]
        alternative_venues == find_alternative_venues(session1, venues, entities)
        alternative_times == find_alternative_times(session1, solution.sessions)
    IN  IF Len(affected) >= 2
        THEN (IF alternative_venues # <<>>
              THEN <<ResolutionSuggestion(
                        "venue_move_" \o session1.id, "reassign_venue",
                        <<session1.id>>,
                        [session_id |-> session1.id,
                         new_venue_id |-> alternative_venues[1].id,
                         alternative_venues |-> VenueIds(Take(alternative_venues, 3))],
                        Tenths(8), "low")>>
              ELSE <<>>)
          \o (IF alternative_times # <<>>
              THEN <<ResolutionSuggestion(
                        "reschedule_" \o session1.id, "reschedule",
                        <<session1.id>>,
                        [session_id |-> session1.id,
                         new_time |-> alternative_times[1],
                         alternative_times |-> Take(alternative_times, 3)],
                        Tenths(7), "medium")>>
              ELSE <<>>)
        ELSE <<>>

(* the "Reschedule session" suggestion of the lecturer, student-group and  *)
(* generic strategies                                                      *)
reschedule_suggestion(prefix, session, solution, score) ==
    LET alternative_times == find_alternative_times(session, solution.sessions)
    IN  IF alternative_times # <<>>
        THEN <<ResolutionSuggestion(
                  prefix \o session.id, "reschedule", <<session.id>>,
                  [session_id |-> session.id, new_time |-> alternative_times[1]],
                  score, "medium")>>
        ELSE <<>>

(* _generate_lecturer_conflict_resolutions                                 *)
lecturer_conflict_resolutions(conflict, solution, entities) ==
    LET lecturers == IndexById(entities.lecturers)
        courses == IndexById(entities.courses)
        affected == affected_sessions_of(conflict, solution)
        session == affected[1]
        course == Lookup(courses, session.course_id)
        alternative_lecturers ==
            find_alternative_lecturers(course, lecturers, solution.sessions)
    IN  IF affected # <<>>
        THEN reschedule_suggestion("lecturer_reschedule_", session, solution, Tenths(8))
          \o (IF course # None /\ alternative_lecturers # <<>>
              THEN <<ResolutionSuggestion(
                        "lecturer_reassign_" \o session.id, "reassign_lecturer",
                        <<session.id>>,
                        [session_id |-> session.id,
                         new_lecturer_id |-> alternative_lecturers[1].id],
                        Tenths(6), "high")>>
              ELSE <<>>)
        ELSE <<>>

(* _generate_student_group_resolutions                                     *)
student_group_resolutions(conflict, solution, entities) ==
    LET affected == affected_sessions_of(conflict, solution)
        session == affected[1]
    IN  IF affected # <<>>
        THEN reschedule_suggestion("group_reschedule_", session, solution, Tenths(8))
          \o (IF Cardinality(session.student_groups) > 1
              THEN <<ResolutionSuggestion(
                        "split_groups_" \o session.id, "split_group",
                        <<session.id>>,
                        [session_id |-> session.id,
                         split_strategy |-> "parallel_sessions"],
                        Tenths(6), "high")>>
              ELSE <<>>)
        ELSE <<>>

(* _generate_capacity_resolutions: larger_venues is filtered by capacity   *)
(* and id only; min(...) takes the first venue of the smallest capacity.   *)
capacity_resolutions(conflict, solution, entities) ==
    LET venues == IndexById(entities.venues)
        affected == affected_sessions_of(conflict, solution)
        session == affected[1]
        current_venue == Lookup(venues, session.venue_id)
        capacity_needed ==
            required_capacity(session.student_groups,
                              IndexById(entities.student_groups))
        larger_venues ==
            FilterSeq(Values(venues),
                      LAMBDA v : /\ Get(v, "capacity", 0) >= capacity_needed
                                 /\ v.id # session.venue_id)
        best_venue ==
            Sorted(larger_venues,
                   LAMBDA x, y : Get(x, "capacity", 0) < Get(y, "capacity", 0))[1]
        current_capacity == Get(current_venue, "capacity", 1)
        sessions_needed ==
            (capacity_needed + current_capacity - 1) \div current_capacity
    IN  IF affected # <<>>
        THEN (IF larger_venues # <<>>
              THEN <<ResolutionSuggestion(
                        "capacity_move_" \o session.id, "reassign_venue",
                        <<session.id>>,
                        [session_id |-> session.id,
                         new_venue_id |-> best_venue.id,
                         required_capacity |-> capacity_needed],
                        Tenths(9), "low")>>
              ELSE <<>>)
          \o (IF current_venue # None
                 /\ capacity_needed > Get(current_venue, "capacity", 0)
              THEN <<ResolutionSuggestion(
                        "capacity_split_" \o session.id, "split_group",
                        <<session.id>>,
                        [session_id |-> session.id,
                         sessions_needed |-> sessions_needed,
                         max_capacity |-> Get(current_venue, "capacity", 0)],
                        Tenths(7), "high")>>
              ELSE <<>>)
        ELSE <<>>

(* _generate_equipment_resolutions: suitable_venues is filtered by         *)
(* equipment and id only, and its first element is taken.                  *)
equipment_resolutions(conflict, solution, entities) ==
    LET venues == IndexById(entities.venues)
        courses == IndexById(entities.courses)
        affected == affected_sessions_of(conflict, solution)
        session == affected[1]
        course == Lookup(courses, session.course_id)
        required_equipment == Get(course, "required_equipment", {})
        suitable_venues ==
            FilterSeq(Values(venues),
                      LAMBDA v :
                        /\ required_equipment \subseteq Get(v, "equipment", {})
                        /\ v.id # session.venue_id)
    IN  IF affected # <<>> /\ course # None /\ suitable_venues # <<>>
        THEN <<ResolutionSuggestion(
                  "equipment_move_" \o session.id, "reassign_venue",
                  <<session.id>>,
                  [session_id |-> session.id,
                   new_venue_id |-> suitable_venues[1].id,
                   required_equipment |-> required_equipment],
                  Tenths(9), "low")>>
        ELSE <<>>

(* _generate_availability_resolutions: the exception of                    *)
(* _find_lecturer_available_times is not caught.                           *)
availability_resolutions(conflict, solution, entities) ==
    LET lecturers == IndexById(entities.lecturers)
        affected == affected_sessions_of(conflict, solution)
        session == affected[1]
        lecturer == Lookup(lecturers, session.lecturer_id)
        outcome == find_lecturer_available_times(lecturer, solution.sessions)
        available_times == outcome.returned
    IN  IF affected # <<>> /\ lecturer # None
        THEN IF IsRaised(outcome) THEN outcome
             ELSE IF available_times # <<>>
             THEN Returned(<<ResolutionSuggestion(
                       "availability_reschedule_" \o session.id, "reschedule",
                       <<session.id>>,
                       [session_id |-> session.id,
                        new_time |-> available_times[1],
                        lecturer_id |-> session.lecturer_id],
                       Tenths(8), "medium")>>)
             ELSE Returned(<<>>)
        ELSE Returned(<<>>)

(* _generate_generic_resolutions                                           *)
generic_resolutions(conflict, solution, entities) ==
    LET affected == affected_sessions_of(conflict, solution)
    IN  IF affected # <<>>
        THEN reschedule_suggestion("generic_reschedule_", affected[1], solution,
                                   Tenths(5))
        ELSE <<>>

----------------------------------------------------------------------------
(* ConflictAnalyzer: generate_resolution_suggestions                       *)

conflict_type_of(conflict) == Get(conflict, "type", "unknown")

(* _group_conflicts_by_type: the kinds in the order of their first         *)
(* conflict, each with its conflicts in their order                        *)
group_conflicts_by_type(conflicts) ==
    LET firsts ==
            FilterSeq([i \in 1..Len(conflicts) |-> i],
                      LAMBDA i :
                        ~\E j \in 1..(i - 1) :
                            conflict_type_of(conflicts[j]) = conflict_type_of(conflicts[i]))
    IN  [k \in 1..Len(firsts) |->
            [key |-> conflict_type_of(conflicts[firsts[k]]),
             value |-> FilterSeq(conflicts,
                          LAMBDA c : conflict_type_of(c)
                                        = conflict_type_of(conflicts[firsts[k]]))]]

(* The branch of generate_resolution_suggestions for one kind, for one     *)
(* conflict of that kind.                                                  *)
resolutions_for(conflict_type, conflict, solution, entities) ==
    IF conflict_type = "venue_double_booking"
    THEN Returned(venue_conflict_resolutions(conflict, solution, entities))
    ELSE IF conflict_type = "lecturer_conflict"
    THEN Returned(lecturer_conflict_resolutions(conflict, solution, entities))
    ELSE IF conflict_type = "student_group_overlap"
    THEN Returned(student_group_resolutions(conflict, solution, entities))
    ELSE IF conflict_type = "capacity_exceeded"
    THEN Returned(capacity_resolutions(conflict, solution, entities))
    ELSE IF conflict_type = "equipment_conflict"
    THEN Returned(equipment_resolutions(conflict, solution, entities))
    ELSE IF conflict_type = "availability_violation"
    THEN availability_resolutions(conflict, solution, entities)
    ELSE Returned(generic_resolutions(conflict, solution, entities))

(* The loops over the kinds and over the conflicts of a kind: the first    *)
(* exception ends them.                                                    *)
RECURSIVE all_suggestions_from(_, _, _, _, _, _)
all_suggestions_from(all_suggestions, conflicts_by_type, t, i, solution, entities) ==
    IF t > Len(conflicts_by_type) THEN Returned(all_suggestions)
    ELSE IF i > Len(conflicts_by_type[t].value)
    THEN all_suggestions_from(all_suggestions, conflicts_by_type, t + 1, 1,
                              solution, entities)
    ELSE LET outcome == resolutions_for(conflicts_by_type[t].key,
                                        conflicts_by_type[t].value[i],
                                        solution, entities)
         IN  IF IsRaised(outcome) THEN outcome
             ELSE all_suggestions_from(all_suggestions \o outcome.returned,
                                       conflicts_by_type, t, i + 1,
                                       solution, entities)

(* type_bonuses.get(suggestion.resolution_type, 0.0), in units of ScoreOne *)
type_bonus(resolution_type) ==
    IF resolution_type = "reschedule" THEN Tenths(1)
    ELSE IF resolution_type = "reassign_venue" THEN Tenths(1) + Tenths(1) \div 2
    ELSE IF resolution_type = "reassign_lecturer" THEN Tenths(1) \div 2
    ELSE IF resolution_type = "split_group" THEN -(Tenths(1) \div 2)
    ELSE 0

(* _calculate_enhanced_score, which only the first definition of           *)
(* _rank_suggestions calls; the class binds the last definition, which     *)
(* does not.  mentions_multiple says whether the impact text contains      *)
(* "multiple".                                                             *)
calculate_enhanced_score(suggestion, mentions_multiple) ==
    LET conflicts_resolved == Len(suggestion.affected_sessions)
        conflict_factor ==
            IF conflicts_resolved >= 5 THEN ScoreOne
            ELSE (conflicts_resolved * ScoreOne) \div 5
        impact_penalty == IF mentions_multiple THEN Tenths(1) \div 2 ELSE 0
    IN  Clamp(suggestion.score + conflict_factor + type_bonus(suggestion.resolution_type)
                - effort_penalty(suggestion.effort_level) - impact_penalty)

(* effort_order.get(s.effort_level, 2)                                     *)
effort_order(effort_level) ==
    IF effort_level = "low" THEN 1
    ELSE IF effort_level = "high" THEN 3
    ELSE 2

(* Mutant of ranks_before: the key is the score alone.                     *)
ranks_before_ScoreOnly(x, y) ==
    x.score > y.score

(* key=lambda s: (-s.score, effort_order.get(s.effort_level, 2))           *)
ranks_before(x, y) ==
    \/ x.score > y.score
    \/ x.score = y.score /\ effort_order(x.effort_level) < effort_order(y.effort_level)

(* _rank_suggestions                                                       *)
rank_suggestions(suggestions) == Sorted(suggestions, ranks_before)

(* ranked_suggestions[:max_suggestions] for max_suggestions >= 0           *)
generate_resolution_suggestions(conflicts, solution, entities, max_suggestions) ==
    LET outcome ==
            all_suggestions_from(<<>>, group_conflicts_by_type(conflicts), 1, 1,
                                 solution, entities)
    IN  IF IsRaised(outcome) THEN outcome
        ELSE Returned(Take(rank_suggestions(outcome.returned), max_suggestions))

----------------------------------------------------------------------------
(* ConflictAnalyzer: generate_multiple_alternatives                        *)

(* The path built in iteration i of the loop: the low-effort suggestions,  *)
(* the suggestions by descending score, or all_suggestions[i*2:(i*2)+5].   *)
alternative_path(all_suggestions, i) ==
    IF i = 0
    THEN Take(FilterSeq(all_suggestions, LAMBDA x : x.effort_level = "low"), 5)
    ELSE IF i = 1
    THEN Take(Sorted(all_suggestions, LAMBDA x, y : x.score > y.score), 5)
    ELSE IF i * 2 + 1 > Len(all_suggestions) THEN <<>>
    ELSE SubSeq(all_suggestions, i * 2 + 1,
                IF i * 2 + 5 < Len(all_suggestions) THEN i * 2 + 5
                ELSE Len(all_suggestions))

(* The loop of generate_multiple_alternatives over all_suggestions: an     *)
(* empty path is not appended.                                             *)
alternative_paths(all_suggestions, num_alternatives) ==
    LET iterations ==
            IF num_alternatives < Len(all_suggestions) THEN num_alternatives
            ELSE Len(all_suggestions)
        paths == [k \in 1..iterations |-> alternative_path(all_suggestions, k - 1)]
    IN  FilterSeq(paths, LAMBDA path : path # <<>>)

(* generate_multiple_alternatives: the suggester is asked once, for up to  *)
(* 20 suggestions, and an exception of the suggester leaves the method.    *)
generate_multiple_alternatives(conflicts, solution, entities, num_alternatives) ==
    CHOOSE result \in
        {IF IsRaised(outcome) THEN outcome
         ELSE Returned(alternative_paths(outcome.returned, num_alternatives)) :
            outcome \in {generate_resolution_suggestions(conflicts, solution,
                                                         entities, 20)}} : TRUE

----------------------------------------------------------------------------
(* ConflictAnalyzer: analyze_conflicts                                     *)

(* ConflictPattern.__init__ with _calculate_severity:                      *)
(* min(min(frequency / 10.0, 1.0) + len(entities) / 20.0, 1.0)             *)
ConflictPattern(conflict_type, frequency, pattern_entities) ==
    LET base_score ==
            IF frequency >= 10 THEN ScoreOne ELSE (frequency * ScoreOne) \div 10
        entity_impact == (Cardinality(pattern_entities) * ScoreOne) \div 20
    IN  [conflict_type |-> conflict_type,
         frequency |-> frequency,
         entities |-> pattern_entities,
         severity_score |->
            IF base_score + entity_impact > ScoreOne THEN ScoreOne
            ELSE base_score + entity_impact]

(* conflict.get('affected_entities', []) of every conflict, one after the  *)
(* other                                                                   *)
RECURSIVE affected_entities_from(_, _)
affected_entities_from(conflicts, i) ==
    IF i > Len(conflicts) THEN <<>>
    ELSE Get(conflicts[i], "affected_entities", <<>>)
            \o affected_entities_from(conflicts, i + 1)

(* The keys of a defaultdict or Counter filled by a loop over seq: the     *)
(* distinct elements in the order of their first occurrence.               *)
KeysInOrder(seq) ==
    LET firsts ==
            FilterSeq([i \in 1..Len(seq) |-> i],
                      LAMBDA i : ~\E j \in 1..(i - 1) : seq[j] = seq[i])
    IN  [k \in 1..Len(firsts) |-> seq[firsts[k]]]

CountOf(seq, x) == Cardinality({i \in 1..Len(seq) : seq[i] = x})

(* involved_entities of a kind: conflict.get('type') == conflict_type, so  *)
(* a conflict without a type adds nothing to the 'unknown' pattern         *)
involved_entities(conflicts, conflict_type) ==
    UNION {Range(Get(conflicts[i], "affected_entities", <<>>)) :
              i \in {j \in 1..Len(conflicts) :
                        /\ "type" \in DOMAIN conflicts[j]
                        /\ conflicts[j].type = conflict_type}}

(* Mutant of is_frequent_type: a kind that occurs once is a pattern.       *)
is_frequent_type_Once(count) == count >= 1

(* if count >= 2: the pattern threshold for a conflict kind                *)
is_frequent_type(count) == count >= 2

(* if len(entity_conflict_list) >= 3: the pattern threshold for an entity  *)
is_hotspot(count) == count >= 3

hotspot_name(entity) == "entity_hotspot_" \o entity

(* _identify_conflict_patterns                                             *)
identify_conflict_patterns(conflicts) ==
    LET types == [i \in 1..Len(conflicts) |-> conflict_type_of(conflicts[i])]
        frequent_types ==
            FilterSeq(KeysInOrder(types),
                      LAMBDA conflict_type : is_frequent_type(CountOf(types, conflict_type)))
        involved == affected_entities_from(conflicts, 1)
        hotspots ==
            FilterSeq(KeysInOrder(involved),
                      LAMBDA entity : is_hotspot(CountOf(involved, entity)))
        patterns ==
            [k \in 1..Len(frequent_types) |->
                ConflictPattern(frequent_types[k], CountOf(types, frequent_types[k]),
                                involved_entities(conflicts, frequent_types[k]))]
         \o [k \in 1..Len(hotspots) |->
                ConflictPattern(hotspot_name(hotspots[k]), CountOf(involved, hotspots[k]),
                                {hotspots[k]})]
    IN  Sorted(patterns, LAMBDA x, y : x.severity_score > y.severity_score)

(* _analyze_entity_involvement                                             *)
analyze_entity_involvement(conflicts, entities) ==
    LET involved == affected_entities_from(conflicts, 1)
        entity_ids == KeysInOrder(involved)
        conflict_types(entity) ==
            {conflict_type_of(conflicts[i]) :
                i \in {j \in 1..Len(conflicts) :
                          entity \in Range(Get(conflicts[j], "affected_entities", <<>>))}}
        problematic_entities ==
            Take(Sorted(entity_ids,
                        LAMBDA x, y : CountOf(involved, x) > CountOf(involved, y)),
                 10)
        type_analysis(entity_list) ==
            LET with_conflicts ==
                    {k \in 1..Len(entity_list) :
                        CountOf(involved, Get(entity_list[k], "id", "")) > 0}
            IN  [total_conflicts |->
                    Cardinality({<<k, i>> \in (1..Len(entity_list)) \X (1..Len(involved)) :
                                    involved[i] = Get(entity_list[k], "id", "")}),
                 entities_with_conflicts |-> Cardinality(with_conflicts),
                 total_entities |-> Len(entity_list)]
    IN  [most_problematic_entities |->
            [k \in 1..Len(problematic_entities) |->
                [entity_id |-> problematic_entities[k],
                 conflict_count |-> CountOf(involved, problematic_entities[k]),
                 conflict_types |-> conflict_types(problematic_entities[k])]],
         entity_type_analysis |->
            [entity_type \in DOMAIN entities |-> type_analysis(entities[entity_type])]]

(* _identify_root_causes: usage > avg * 1.5 with avg = total / len(...) is *)
(* compared over integers, as are the 0.3 and 0.2 shares and avg * 2.      *)
identify_root_causes(solution, entities) ==
    LET sessions == solution.sessions
        total == Len(sessions)
        used_venues == KeysInOrder([i \in 1..total |-> sessions[i].venue_id])
        used_lecturers == KeysInOrder([i \in 1..total |-> sessions[i].lecturer_id])
        used_times == KeysInOrder([i \in 1..total |-> TimeKey(sessions[i])])
        venue_usage(id) == Cardinality({i \in 1..total : sessions[i].venue_id = id})
        lecturer_usage(id) == Cardinality({i \in 1..total : sessions[i].lecturer_id = id})
        time_usage(key) == Cardinality({i \in 1..total : TimeKey(sessions[i]) = key})
        high_usage_venues ==
            FilterSeq(used_venues,
                      LAMBDA id : 2 * venue_usage(id) * Len(entities.venues) > 3 * total)
        overloaded_lecturers ==
            FilterSeq(used_lecturers,
                      LAMBDA id : 2 * lecturer_usage(id) * Len(entities.lecturers) > 3 * total)
        peak_times ==
            FilterSeq(used_times,
                      LAMBDA key : time_usage(key) * Len(used_times) > 2 * total)
    IN  (IF entities.venues # <<>> /\ high_usage_venues # <<>>
         THEN <<[type |-> "venue_scarcity",
                 severity |->
                    IF 10 * Len(high_usage_venues) > 3 * Len(entities.venues)
                    THEN "high" ELSE "medium",
                 affected_entities |-> high_usage_venues]>>
         ELSE <<>>)
     \o (IF entities.lecturers # <<>> /\ overloaded_lecturers # <<>>
         THEN <<[type |-> "lecturer_overload",
                 severity |->
                    IF 10 * Len(overloaded_lecturers) > 2 * Len(entities.lecturers)
                    THEN "high" ELSE "medium",
                 affected_entities |-> overloaded_lecturers]>>
         ELSE <<>>)
     \o (IF used_times # <<>> /\ peak_times # <<>>
         THEN <<[type |-> "time_slot_congestion",
                 severity |-> "medium",
                 affected_entities |-> peak_times]>>
         ELSE <<>>)

(* _calculate_severity_distribution                                        *)
calculate_severity_distribution(conflicts) ==
    LET severities ==
            [i \in 1..Len(conflicts) |-> Get(conflicts[i], "severity", "unknown")]
        keys == KeysInOrder(severities)
    IN  [k \in 1..Len(keys) |-> [key |-> keys[k], value |-> CountOf(severities, keys[k])]]

(* _generate_analysis_recommendations: one text per pattern among the      *)
(* first three that is a venue, lecturer or hotspot pattern, then the      *)
(* recommendation of every root cause of high severity; the first five.   *)
generate_analysis_recommendations(patterns, root_causes, entity_names) ==
    LET top == Take(patterns, 3)
        advised ==
            FilterSeq(top,
                      LAMBDA pattern :
                        \/ pattern.conflict_type
                              \in {"venue_double_booking", "lecturer_conflict"}
                        \/ pattern.conflict_type
                              \in {hotspot_name(entity) : entity \in entity_names})
        high_causes == FilterSeq(root_causes, LAMBDA cause : cause.severity = "high")
    IN  Take([k \in 1..Len(advised) |-> advised[k].conflict_type]
                \o [k \in 1..Len(high_causes) |-> high_causes[k].type],
             5)

(* analyze_conflicts                                                       *)
analyze_conflicts(conflicts, solution, entities) ==
    LET patterns == identify_conflict_patterns(conflicts)
        root_causes == identify_root_causes(solution, entities)
    IN  Returned(
            [total_conflicts |-> Len(conflicts),
             patterns |-> patterns,
             entity_analysis |-> analyze_entity_involvement(conflicts, entities),
             root_causes |-> root_causes,
             severity_distribution |-> calculate_severity_distribution(conflicts),
             recommendations |->
                generate_analysis_recommendations(
                    patterns, root_causes,
                    Range(affected_entities_from(conflicts, 1)))])

----------------------------------------------------------------------------
(* ConflictAnalyzer: evaluate_suggestion_quality                           *)

(* new_venue_id not in venues, new_lecturer_id not in lecturers: a         *)
(* parameter that is absent is None, which is no key                       *)
names_entity(parameters, name, entity_list) ==
    /\ name \in DOMAIN parameters
    /\ Lookup(IndexById(entity_list), parameters[name]) # None

(* _calculate_feasibility_score                                            *)
calculate_feasibility_score(suggestion, entities) ==
    LET missing ==
            \/ /\ suggestion.resolution_type = "reassign_venue"
               /\ ~names_entity(suggestion.parameters, "new_venue_id", entities.venues)
            \/ /\ suggestion.resolution_type = "reassign_lecturer"
               /\ ~names_entity(suggestion.parameters, "new_lecturer_id",
                                entities.lecturers)
        effort_penalties ==
            IF suggestion.effort_level = "low" THEN 0
            ELSE IF suggestion.effort_level = "high" THEN Tenths(2)
            ELSE Tenths(1)
    IN  Clamp(Tenths(8) - (IF missing THEN Tenths(3) ELSE 0) - effort_penalties)

(* _calculate_impact_score                                                 *)
calculate_impact_score(suggestion, conflicts) ==
    LET conflicts_resolved ==
            Cardinality({i \in 1..Len(conflicts) :
                            Range(suggestion.affected_sessions)
                              \cap Range(Get(conflicts[i], "session_ids", <<>>)) # {}})
        bonus ==
            IF conflicts_resolved > 1
            THEN (IF conflicts_resolved > 3 THEN Tenths(3) ELSE Tenths(conflicts_resolved))
            ELSE 0
    IN  Clamp(Tenths(7) + bonus
                - (IF suggestion.effort_level = "high" THEN Tenths(1) ELSE 0))

(* effort_scores.get(suggestion.effort_level, 0.5)                         *)
effort_score_of(effort_level) ==
    IF effort_level = "low" THEN Tenths(9)
    ELSE IF effort_level = "medium" THEN Tenths(6)
    ELSE IF effort_level = "high" THEN Tenths(3)
    ELSE Tenths(5)

(* risk_level = 'high' if risk_level == 'medium' else 'medium'             *)
raise_risk(risk_level) == IF risk_level = "medium" THEN "high" ELSE "medium"

(* _assess_suggestion_risk: the level after the four tests in their order  *)
assess_suggestion_risk(suggestion) ==
    LET after_effort == IF suggestion.effort_level = "high" THEN "medium" ELSE "low"
        after_sessions ==
            IF Len(suggestion.affected_sessions) > 3
            THEN raise_risk(after_effort) ELSE after_effort
        after_confidence ==
            IF suggestion.confidence < Tenths(6)
            THEN raise_risk(after_sessions) ELSE after_sessions
    IN  [level |->
            IF suggestion.resolution_type \in {"split_group", "reassign_lecturer"}
               /\ after_confidence = "low"
            THEN "medium" ELSE after_confidence]

(* Mutant of recommendation_of: the risk level is not looked at.           *)
recommendation_of_ScoreOnly(overall, risk_level) ==
    IF overall >= Tenths(7) THEN "approve" ELSE "review"

(* overall_score >= 0.7 and risk_assessment['level'] != 'high'             *)
recommendation_of(overall, risk_level) ==
    IF overall >= Tenths(7) /\ risk_level # "high" THEN "approve" ELSE "review"

(* evaluate_suggestion_quality: the weights 0.4, 0.3, 0.2 and 0.1 are      *)
(* applied as 4, 3, 2 and 1 tenths.                                        *)
evaluate_suggestion_quality(suggestion, conflicts, entities) ==
    LET feasibility_score == calculate_feasibility_score(suggestion, entities)
        impact_score == calculate_impact_score(suggestion, conflicts)
        effort_score == effort_score_of(suggestion.effort_level)
        risk_assessment == assess_suggestion_risk(suggestion)
        overall ==
            (suggestion.score * 4 + feasibility_score * 3
                + impact_score * 2 + effort_score * 1) \div 10
    IN  Returned(
            [overall_score |-> Clamp(overall),
             confidence |-> suggestion.confidence,
             feasibility_score |-> feasibility_score,
             impact_score |-> impact_score,
             effort_score |-> effort_score,
             risk_assessment |-> risk_assessment,
             recommendation |-> recommendation_of(overall, risk_assessment.level)])

----------------------------------------------------------------------------
(* Inputs of the ConflictAnalyzer                                          *)

MaxConflicts == 2           \* conflicts given to the suggester and the evaluator
MaxSuggestions == 2         \* largest max_suggestions asked for
MaxAnalyzedConflicts == 3   \* conflicts given to analyze_conflicts
MaxAnalyzed == 2            \* sessions of a schedule searched for free slots
MaxScoreTenths == 10        \* largest score of an evaluated suggestion, in tenths
MaxAlternatives == 3        \* largest num_alternatives asked for

(* Two venue catalogues: the larger venue has the projector, or lacks it.  *)
VenuesLargeEquipped ==
    Venues(<<[capacity |-> 30, equipment |-> {}],
             [capacity |-> 60, equipment |-> {"projector"}]>>)

VenuesSmallEquipped ==
    Venues(<<[capacity |-> 30, equipment |-> {"projector"}],
             [capacity |-> 60, equipment |-> {}]>>)

(* A lecturer's availability by day name; Monday's entry is a dict with    *)
(* the key 'available', a list of intervals, or a boolean.                 *)
MondayAvailable == [day \in {"monday"} |-> AsDict([available |-> TRUE])]

MondayIntervals ==
    [day \in {"monday"} |-> AsList(<<[start_hour |-> 9, end_hour |-> 17]>>)]

MondayTrue == [day \in {"monday"} |-> AsBool(TRUE)]

AnalyzerLecturers(availability) ==
    <<[id |-> LecturerId(1), subjects |-> {"math"}, availability |-> availability],
      [id |-> LecturerId(2), subjects |-> {"math"}, availability |-> availability]>>

(* c1 needs a projector and names its lecturer; c2 needs nothing.          *)
AnalyzerCourses ==
    <<[id |-> CourseId(1), required_equipment |-> {"projector"},
       subjects |-> {"math"}, lecturer_id |-> LecturerId(1)],
      [id |-> CourseId(2), required_equipment |-> {}, subjects |-> {"math"}]>>

AnalyzerEntities(venues, availability) ==
    [venues |-> venues, lecturers |-> AnalyzerLecturers(availability),
     courses |-> AnalyzerCourses, student_groups |-> StudentGroups]

EntityInputs ==
    {AnalyzerEntities(VenuesLargeEquipped, MondayAvailable),
     AnalyzerEntities(VenuesSmallEquipped, MondayAvailable),
     AnalyzerEntities(VenuesLargeEquipped, MondayIntervals),
     AnalyzerEntities(VenuesLargeEquipped, MondayTrue)}

(* Schedules with conflicts: s1 holds the 40 students of g2 on Monday at   *)
(* 09:00, s2 is in venue v1 at the same time.                              *)
ConflictingSchedules ==
    {ScheduleOf(choice, FALSE) :
        choice \in
            {<<>>}
            \cup {<<first>> :
                    first \in [venue_id : {VenueId(1)}, lecturer_id : {LecturerId(1)},
                               student_groups : {{GroupId(2)}}, slot : {<<0, 9>>}]}
            \cup {<<first, second>> :
                    first \in [venue_id : {VenueId(1), VenueId(2)},
                               lecturer_id : {LecturerId(1)},
                               student_groups : {{GroupId(2)}}, slot : {<<0, 9>>}],
                    second \in [venue_id : {VenueId(1)},
                                lecturer_id : {LecturerId(1), LecturerId(2)},
                                student_groups : {{GroupId(1)}, {GroupId(2)}},
                                slot : {<<0, 9>>}]}}

ConflictKinds ==
    {"venue_double_booking", "lecturer_conflict", "student_group_overlap",
     "capacity_exceeded", "equipment_conflict", "availability_violation",
     "room_closed"}

(* What a conflict says of its sessions: nothing, the two sessions of the  *)
(* schedule, or one of them and a session that does not exist.             *)
SessionIdChoices == {<<>>, <<"s1", "s2">>, <<"s2", "s9">>}

(* A conflict of a kind, or without a type; session_ids is left out when   *)
(* there is none to name.                                                  *)
ConflictOf(kind, session_ids) ==
    LET typed == IF kind = "" THEN EmptyDict ELSE [type |-> kind]
    IN  IF session_ids = <<>> THEN typed
        ELSE typed @@ [session_ids |-> session_ids]

(* Conflict lists of up to max_conflicts conflicts that name the same      *)
(* sessions.                                                               *)
ConflictLists(kinds, max_conflicts) ==
    {[i \in 1..Len(ks) |-> ConflictOf(ks[i], session_ids)] :
        ks \in UNION {[1..n -> kinds \cup {""}] : n \in 0..max_conflicts},
        session_ids \in SessionIdChoices}

(* Requests to generate_resolution_suggestions: conflicts from outside,    *)
(* or the conflicts validate_solution reports for the schedule.            *)
SuggestInputs(max_conflicts, max_suggestions) ==
    {[conflicts |-> conflicts, solution |-> solution, entities |-> entities,
      max_suggestions |-> max_suggestions_asked] :
        conflicts \in ConflictLists(ConflictKinds, max_conflicts),
        solution \in ConflictingSchedules,
        entities \in EntityInputs,
        max_suggestions_asked \in 0..max_suggestions}
    \cup
    {[conflicts |-> validate_solution(solution).conflicts, solution |-> solution,
      entities |-> entities, max_suggestions |-> max_suggestions_asked] :
        solution \in ConflictingSchedules,
        entities \in EntityInputs,
        max_suggestions_asked \in 0..max_suggestions}

(* Requests to analyze_conflicts: conflicts with or without a type, a      *)
(* severity and affected entities; one conflict names its venue once for   *)
(* each of its two sessions.                                               *)
AnalyzedConflictChoices ==
    {typed @@ involved :
        typed \in {EmptyDict,
                   [type |-> "venue_double_booking", severity |-> "high"],
                   [type |-> "lecturer_conflict"],
                   [type |-> "unknown", severity |-> "low"]},
        involved \in {EmptyDict,
                      [affected_entities |-> <<VenueId(1)>>],
                      [affected_entities |-> <<VenueId(1), LecturerId(1)>>]}}
    \cup {[type |-> "venue_double_booking", severity |-> "high",
           affected_entities |-> <<VenueId(1), VenueId(1)>>]}

AnalyzeInputs(max_conflicts) ==
    {[conflicts |-> conflicts, solution |-> solution, entities |-> entities] :
        conflicts \in UNION {[1..n -> AnalyzedConflictChoices] : n \in 0..max_conflicts},
        solution \in {ScheduleOf(<<>>, FALSE)}
                        \cup {sol \in ConflictingSchedules :
                                /\ Len(sol.sessions) = 2
                                /\ sol.sessions[1].venue_id = sol.sessions[2].venue_id
                                /\ sol.sessions[1].lecturer_id = sol.sessions[2].lecturer_id
                                /\ sol.sessions[2].student_groups = {GroupId(1)}},
        entities \in {AnalyzerEntities(VenuesLargeEquipped, MondayAvailable)}}

(* Requests to evaluate_suggestion_quality                                 *)
SuggestionInputs(max_score) ==
    {ResolutionSuggestion("suggestion", resolution_type, affected_sessions,
                          parameters, Tenths(score), effort_level) :
        resolution_type \in {"reassign_venue", "reassign_lecturer", "reschedule",
                             "split_group"},
        affected_sessions \in {<<"s1">>, <<"s1", "s2", "s3", "s4">>},
        parameters \in {[session_id |-> "s1"],
                        [session_id |-> "s1", new_venue_id |-> VenueId(2)],
                        [session_id |-> "s1", new_venue_id |-> "v9"]},
        score \in 0..max_score,
        effort_level \in {"low", "medium", "high", "unknown"}}

EvaluateInputs(max_score, max_conflicts) ==
    {[suggestion |-> suggestion, conflicts |-> conflicts, entities |-> entities] :
        suggestion \in SuggestionInputs(max_score),
        conflicts \in ConflictLists({"venue_double_booking"}, max_conflicts),
        entities \in {AnalyzerEntities(VenuesLargeEquipped, MondayAvailable)}}

(* Requests to generate_multiple_alternatives                              *)
AlternativesInputs(max_conflicts, max_alternatives) ==
    {[conflicts |-> conflicts, solution |-> solution, entities |-> entities,
      num_alternatives |-> num_alternatives] :
        conflicts \in ConflictLists({"venue_double_booking", "lecturer_conflict",
                                     "capacity_exceeded", "availability_violation"},
                                    max_conflicts),
        solution \in ConflictingSchedules,
        entities \in EntityInputs,
        num_alternatives \in 0..max_alternatives}

(* Requests to _find_alternative_times: a session of a schedule            *)
FindTimesInputs(max_sessions) ==
    {[session |-> solution.sessions[i], solution |-> solution] :
        <<solution, i>> \in
            {p \in ScheduleInputs(max_sessions) \X (1..max_sessions) :
                p[1].is_feasible /\ p[2] <= Len(p[1].sessions)}}

----------------------------------------------------------------------------
(* The ConflictAnalyzer as a state machine: a request arrives (Init) and   *)
(* the method it names runs to completion.  No method reads or writes a    *)
(* field of the instance, so the response depends on the request alone;    *)
(* the response is Returned(value) or Raised(exception).                   *)

AnalyzerInit ==
    /\ variables = <<>>
    /\ model = None
    /\ now = 1
    /\ calls = <<>>
    /\ response = None
    /\ \/ op = "suggest" /\ request \in SuggestInputs(MaxConflicts, MaxSuggestions)
       \/ op = "analyze" /\ request \in AnalyzeInputs(MaxAnalyzedConflicts)
       \/ op = "evaluate" /\ request \in EvaluateInputs(MaxScoreTenths, MaxConflicts)
       \/ op = "find_times" /\ request \in FindTimesInputs(MaxAnalyzed)
       \/ op = "alternatives"
            /\ request \in AlternativesInputs(MaxConflicts, MaxAlternatives)

Suggest ==
    /\ op = "suggest"
    /\ response = None
    /\ response' = generate_resolution_suggestions(
                        request.conflicts, request.solution, request.entities,
                        request.max_suggestions)
    /\ UNCHANGED <<op, request, variables, model, now, calls>>

Analyze ==
    /\ op = "analyze"
    /\ response = None
    /\ response' = analyze_conflicts(request.conflicts, request.solution,
                                     request.entities)
    /\ UNCHANGED <<op, request, variables, model, now, calls>>

Evaluate ==
    /\ op = "evaluate"
    /\ response = None
    /\ response' = evaluate_suggestion_quality(request.suggestion, request.conflicts,
                                               request.entities)
    /\ UNCHANGED <<op, request, variables, model, now, calls>>

FindAlternativeTimes ==
    /\ op = "find_times"
    /\ response = None
    /\ response' = Returned(find_alternative_times(request.session,
                                                   request.solution.sessions))
    /\ UNCHANGED <<op, request, variables, model, now, calls>>

Alternatives ==
    /\ op = "alternatives"
    /\ response = None
    /\ response' = generate_multiple_alternatives(
                        request.conflicts, request.solution, request.entities,
                        request.num_alternatives)
    /\ UNCHANGED <<op, request, variables, model, now, calls>>

AnalyzerNext ==
    Suggest \/ Analyze \/ Evaluate \/ FindAlternativeTimes \/ Alternatives

AnalyzerSpec == AnalyzerInit /\ [][AnalyzerNext]_vars

----------------------------------------------------------------------------
(* A caller that keeps one schedule and calls the analyzer repeatedly      *)

MaxCalls == 3               \* most calls made on one schedule
MaxCallConflicts == 1       \* most conflicts handed to one of these calls

(* The caller's schedule once a call has produced its suggestions: none of *)
(* the three methods assigns to solution, to solution.sessions or to a     *)
(* field of a session; a change is only described in the parameters of a   *)
(* suggestion.                                                             *)
schedule_after_Applied(solution, suggestions) ==
    IF suggestions = <<>> \/ "new_venue_id" \notin DOMAIN suggestions[1].parameters
    THEN solution
    ELSE LET parameters == suggestions[1].parameters
             sessions == solution.sessions
         IN  [solution EXCEPT !.sessions =
                [k \in DOMAIN sessions |->
                    IF sessions[k].id = parameters.session_id
                    THEN [sessions[k] EXCEPT !.venue_id = parameters.new_venue_id]
                    ELSE sessions[k]]]

schedule_after(solution, suggestions) == solution

CallNames == {"analyze_conflicts", "generate_resolution_suggestions",
              "generate_multiple_alternatives"}

(* What the named method returns for the caller's schedule                 *)
call_outcome(name, conflicts, solution, entities) ==
    IF name = "analyze_conflicts"
    THEN analyze_conflicts(conflicts, solution, entities)
    ELSE IF name = "generate_resolution_suggestions"
    THEN generate_resolution_suggestions(conflicts, solution, entities, 5)
    ELSE generate_multiple_alternatives(conflicts, solution, entities, 3)

(* The suggestions a call has built: the list, or the paths one after the  *)
(* other; the analysis builds none.                                        *)
RECURSIVE Concat(_)
Concat(seqs) == IF seqs = <<>> THEN <<>> ELSE Head(seqs) \o Concat(Tail(seqs))

suggestions_built(name, outcome) ==
    IF IsRaised(outcome) \/ name = "analyze_conflicts" THEN <<>>
    ELSE IF name = "generate_resolution_suggestions" THEN outcome.returned
    ELSE Concat(outcome.returned)

CallerInit ==
    /\ op = "caller"
    /\ variables = <<>>
    /\ model = None
    /\ now = 1
    /\ calls = <<>>
    /\ response = None
    /\ request \in [solution : ConflictingSchedules, entities : EntityInputs]

Call(name, conflicts) ==
    /\ op = "caller"
    /\ Len(calls) < MaxCalls
    /\ \E outcome \in {call_outcome(name, conflicts, request.solution,
                                     request.entities)} :
          /\ response' = outcome
          /\ request' = [request EXCEPT !.solution =
                            schedule_after(@, suggestions_built(name, outcome))]
    /\ calls' = Append(calls, [name |-> name, solution |-> request.solution])
    /\ UNCHANGED <<op, variables, model, now>>

CallerNext ==
    \E name \in CallNames :
        \E conflicts \in ConflictLists({"venue_double_booking"}, MaxCallConflicts) :
            Call(name, conflicts)

CallerSpec == CallerInit /\ [][CallerNext]_vars

----------------------------------------------------------------------------
(* ConstraintEncoder.encode_constraints                                    *)

MaxDayKeys == 2             \* most keys of one availability dict

(* day_key.lower() for the day keys of the model                           *)
lower(day_key) ==
    IF day_key = "Monday" THEN "monday"
    ELSE IF day_key = "MON" THEN "mon"
    ELSE day_key

day_mapping ==
    [key \in {"monday", "mon", "0", "tuesday", "tue", "1", "wednesday", "wed", "2",
              "thursday", "thu", "3", "friday", "fri", "4"} |->
        IF key \in {"monday", "mon", "0"} THEN 0
        ELSE IF key \in {"tuesday", "tue", "1"} THEN 1
        ELSE IF key \in {"wednesday", "wed", "2"} THEN 2
        ELSE IF key \in {"thursday", "thu", "3"} THEN 3
        ELSE 4]

(* _parse_day_key: a key that is not a str has no lower()                  *)
parse_day_key(day_key) ==
    IF day_key.type # "str" THEN Raised("AttributeError")
    ELSE Returned(Get(day_mapping, lower(day_key.value), 0))

(* normalized[key] = value                                                 *)
Put(d, key, value) ==
    [k \in DOMAIN d \cup {key} |-> IF k = key THEN value ELSE d[k]]

(* The loop of _normalize_availability over availability.items(), from     *)
(* item i on                                                               *)
RECURSIVE normalize_from(_, _, _)
normalize_from(items, i, normalized) ==
    IF i > Len(items) THEN Returned(normalized)
    ELSE LET day_num == parse_day_key(items[i].key)
             day_availability == items[i].value
             entry ==
                 IF day_availability.type = "list" THEN day_availability.value
                 ELSE IF day_availability.type = "dict" THEN <<day_availability.value>>
                 ELSE <<[start_hour |-> 8, end_hour |-> 17]>>
         IN  IF IsRaised(day_num) THEN day_num
             ELSE normalize_from(items, i + 1,
                                 Put(normalized, ToString(day_num.returned), entry))

(* _normalize_availability: a dict is given by its items in insertion      *)
(* order; a value that is not a dict has no items()                        *)
normalize_availability(availability) ==
    IF availability.type # "dict" THEN Raised("AttributeError")
    ELSE LET outcome == normalize_from(availability.value, 1, EmptyDict)
         IN  IF IsRaised(outcome) THEN outcome
             ELSE Returned([k \in DOMAIN outcome.returned \cup WeekdayKeys |->
                              Get(outcome.returned, k, <<>>)])

(* _encode_entities: every kind of entity that is given is copied with its *)
(* defaults filled in                                                      *)
encode_entities(entities) ==
    LET lecturers == Get(entities, "lecturers", <<>>)
        availability_of ==
            [i \in 1..Len(lecturers) |->
                normalize_availability(Get(lecturers[i], "availability", AsDict(<<>>)))]
        failed == {i \in 1..Len(lecturers) : IsRaised(availability_of[i])}
        encoded ==
            [kind \in DOMAIN entities \cap {"venues", "lecturers", "courses",
                                            "student_groups"} |->
                [i \in 1..Len(entities[kind]) |->
                    LET entity == entities[kind][i]
                    IN  IF kind = "venues"
                        THEN [equipment |-> Get(entity, "equipment", <<>>),
                              capacity |-> Get(entity, "capacity", 50)] @@ entity
                        ELSE IF kind = "lecturers"
                        THEN [availability |-> availability_of[i].returned] @@ entity
                        ELSE IF kind = "courses"
                        THEN [duration |-> Get(entity, "duration", 60),
                              frequency |-> Get(entity, "frequency", 1),
                              required_equipment |-> Get(entity, "required_equipment", <<>>),
                              student_groups |-> Get(entity, "student_groups", <<>>)]
                             @@ entity
                        ELSE [size |-> Get(entity, "size", 30)] @@ entity]]
    IN  IF failed # {} THEN availability_of[Min(failed)]
        ELSE Returned(encoded)

(* _encode_constraint_rule                                                 *)
encode_constraint_rule(constraint) ==
    (IF constraint.type = "hard_availability"
     THEN [constraint_type |-> "availability", is_hard |-> TRUE]
     ELSE IF constraint.type = "venue_capacity"
     THEN [constraint_type |-> "capacity", is_hard |-> TRUE]
     ELSE IF constraint.type = "equipment_requirement"
     THEN [constraint_type |-> "equipment", is_hard |-> TRUE]
     ELSE IF constraint.type = "lecturer_preference"
     THEN [constraint_type |-> "preference", is_hard |-> FALSE]
     ELSE [constraint_type |-> "general",
           is_hard |-> constraint.priority \in {"critical", "high"}])
    @@ constraint.rule

(* _encode_constraint_list                                                 *)
encode_constraint_list(constraints) ==
    [i \in 1..Len(constraints) |->
        [id |-> constraints[i].id, type |-> constraints[i].type,
         priority |-> constraints[i].priority, entities |-> constraints[i].entities,
         rule |-> constraints[i].rule, weight |-> constraints[i].weight,
         encoded_rule |-> encode_constraint_rule(constraints[i])]]

(* encode_constraints: the handler logs the exception and raises it again  *)
encode_constraints(constraints, entities, today) ==
    LET encoded_entities == encode_entities(entities)
    IN  IF IsRaised(encoded_entities) THEN encoded_entities
        ELSE Returned(
                [entities |-> encoded_entities.returned,
                 time_slots |-> generate_time_slots,
                 constraints |-> encode_constraint_list(constraints),
                 metadata |-> [encoding_timestamp |-> today,
                               total_constraints |-> Len(constraints),
                               total_time_slots |-> Len(generate_time_slots)]])

(* Day keys: spellings of Monday and Tuesday, a day the mapping does not   *)
(* know, and the integer 0                                                 *)
DayKeyChoices ==
    {[type |-> "str", value |-> v] : v \in {"monday", "Monday", "mon", "tuesday", "sunday"}}
    \cup {[type |-> "int", value |-> 0]}

(* What is given for a day: a list of intervals, one interval, or True     *)
DayAvailabilityChoices ==
    {AsList(<<[start_hour |-> 9, end_hour |-> 12]>>),
     AsList(<<[start_hour |-> 13, end_hour |-> 17]>>),
     AsDict([start_hour |-> 8, end_hour |-> 10]),
     AsBool(TRUE)}

(* The availability of a lecturer: a dict of up to max_keys different      *)
(* keys, or None                                                           *)
AvailabilityInputs(max_keys) ==
    {AsDict(items) :
        items \in {it \in UNION {[1..n -> [key : DayKeyChoices,
                                            value : DayAvailabilityChoices]] :
                                    n \in 0..max_keys} :
                      \A i, j \in 1..Len(it) : i # j => it[i].key # it[j].key}}
    \cup {[type |-> "NoneType", value |-> None]}

ConstraintInputs ==
    {<<>>,
     <<[id |-> "k1", type |-> "hard_availability", priority |-> "critical",
        entities |-> <<LecturerId(1)>>, rule |-> [day |-> 0], weight |-> 1]>>,
     <<[id |-> "k1", type |-> "student_break", priority |-> "low",
        entities |-> <<GroupId(1)>>, rule |-> [minutes |-> 60], weight |-> 1]>>}

(* Entities with and without the fields that have a default                *)
EncoderInputs(max_keys) ==
    {[constraints |-> constraints,
      entities |-> lecturers @@ others] :
        constraints \in ConstraintInputs,
        lecturers \in
            {[lecturers |-> <<[id |-> LecturerId(1)]>>]}
            \cup {[lecturers |-> <<[id |-> LecturerId(1), availability |-> availability]>>] :
                    availability \in AvailabilityInputs(max_keys)},
        others \in
            {EmptyDict,
             [venues |-> <<[id |-> VenueId(1)]>>,
              courses |-> <<[id |-> CourseId(1)]>>,
              student_groups |-> <<[id |-> GroupId(1)]>>],
             [venues |-> <<[id |-> VenueId(1), capacity |-> 30,
                            equipment |-> <<"projector">>]>>,
              courses |-> <<[id |-> CourseId(1), duration |-> 120, frequency |-> 2,
                             required_equipment |-> <<"projector">>,
                             student_groups |-> <<GroupId(1)>>]>>,
              student_groups |-> <<[id |-> GroupId(1), size |-> 20]>>]}}

(* The encoder keeps time_slots and encoded_entities in its fields         *)
EncoderInit ==
    /\ op = "encode"
    /\ variables = <<>>
    /\ model = [time_slots |-> <<>>, encoded_entities |-> EmptyDict]
    /\ now \in 1..2
    /\ calls = <<>>
    /\ response = None
    /\ request \in EncoderInputs(MaxDayKeys)

Encode ==
    /\ op = "encode"
    /\ response = None
    /\ LET encoded_entities == encode_entities(request.entities)
       IN  model' = [time_slots |-> generate_time_slots,
                     encoded_entities |->
                        IF IsRaised(encoded_entities) THEN model.encoded_entities
                        ELSE encoded_entities.returned]
    /\ response' = encode_constraints(request.constraints, request.entities, now)
    /\ UNCHANGED <<op, request, variables, now, calls>>

EncoderSpec == EncoderInit /\ [][Encode]_vars

----------------------------------------------------------------------------
(* Properties of the schedules solve returns                               *)

SolveReturned == op = "solve" /\ response # None

FeasibleSchedule == SolveReturned /\ response.is_feasible

ValidateReturned == op = "validate" /\ response # None

SameSlot(s1, s2) ==
    s1.day_of_week = s2.day_of_week /\ s1.start_hour = s2.start_hour

SessionPairs(sessions) ==
    {p \in (1..Len(sessions)) \X (1..Len(sessions)) : p[1] # p[2]}

VenueOf(ec, venue_id) ==
    CHOOSE v \in Range(ec.entities.venues) : v.id = venue_id

LecturerOf(ec, lecturer_id) ==
    CHOOSE l \in Range(ec.entities.lecturers) : l.id = lecturer_id

RECURSIVE SizeOfGroups(_, _)
SizeOfGroups(ec, ids) ==
    IF ids = {} THEN 0
    ELSE LET id == CHOOSE x \in ids : TRUE
             known == {g \in Range(ec.entities.student_groups) : g.id = id}
         IN  (IF known = {} THEN 0 ELSE (CHOOSE g \in known : TRUE).size)
             + SizeOfGroups(ec, ids \ {id})

Covers(lecturer, day, hour) ==
    LET key == ToString(day)
    IN  /\ key \in DOMAIN lecturer.availability
        /\ \E interval \in Range(lecturer.availability[key]) :
              interval.start_hour <= hour /\ hour < interval.end_hour

DistinctCourseIds(ec) ==
    \A i, j \in 1..Len(ec.entities.courses) :
        i # j => ec.entities.courses[i].id # ec.entities.courses[j].id

(* C1: in every schedule solve returns with is_feasible = true, no two     *)
(* distinct sessions have the same venue_id and the same (day_of_week,     *)
(* start hour).                                                            *)
C1_NoVenueCollision ==
    FeasibleSchedule =>
        \A p \in SessionPairs(response.sessions) :
            LET s1 == response.sessions[p[1]]
                s2 == response.sessions[p[2]]
            IN  ~(s1.venue_id = s2.venue_id /\ SameSlot(s1, s2))

(* C2: in every schedule solve returns with is_feasible = true, no two     *)
(* distinct sessions have the same lecturer_id and the same (day_of_week,  *)
(* start hour).                                                            *)
C2_NoLecturerCollision ==
    FeasibleSchedule =>
        \A p \in SessionPairs(response.sessions) :
            LET s1 == response.sessions[p[1]]
                s2 == response.sessions[p[2]]
            IN  ~(s1.lecturer_id = s2.lecturer_id /\ SameSlot(s1, s2))

(* C3: in every schedule solve returns with is_feasible = true, no two     *)
(* distinct sessions whose student_groups have a group in common (two      *)
(* sessions of one course included) have the same (day_of_week, start      *)
(* hour).                                                                  *)
C3_NoStudentGroupCollision ==
    FeasibleSchedule =>
        \A p \in SessionPairs(response.sessions) :
            LET s1 == response.sessions[p[1]]
                s2 == response.sessions[p[2]]
            IN  ~(s1.student_groups \cap s2.student_groups # {} /\ SameSlot(s1, s2))

(* C4: for every session of a schedule solve returns with is_feasible =    *)
(* true, the normalised availability of the assigned lecturer has, for the *)
(* session's day, an interval with start_hour <= session hour < end_hour.  *)
C4_LecturerAvailable ==
    FeasibleSchedule =>
        \A k \in 1..Len(response.sessions) :
            LET s == response.sessions[k]
            IN  Covers(LecturerOf(request, s.lecturer_id), s.day_of_week, s.start_hour)

(* C5: for every session of a schedule solve returns with is_feasible =    *)
(* true, the capacity of the assigned venue is at least the sum of the     *)
(* sizes of the student groups of the session's course.                    *)
C5_VenueCapacity ==
    FeasibleSchedule =>
        \A k \in 1..Len(response.sessions) :
            LET s == response.sessions[k]
            IN  VenueOf(request, s.venue_id).capacity
                    >= SizeOfGroups(request, s.student_groups)

(* A feasible schedule for a request that also offered a venue too small   *)
(* for one of the scheduled sessions.                                      *)
C5_Witness ==
    /\ FeasibleSchedule
    /\ \E k \in 1..Len(response.sessions) :
         \E v \in Range(request.entities.venues) :
            v.capacity < SizeOfGroups(request, response.sessions[k].student_groups)

(* C6: for every session of a schedule solve returns with is_feasible =    *)
(* true, the equipment of the assigned venue includes every item of the    *)
(* required_equipment of the course (the first course of the request with  *)
(* the session's course_id).                                               *)
C6_VenueEquipment ==
    FeasibleSchedule =>
        \A k \in 1..Len(response.sessions) :
            LET s == response.sessions[k]
                course == CourseById(request.entities.courses, s.course_id)
            IN  course.required_equipment
                    \subseteq VenueOf(request, s.venue_id).equipment

(* A feasible schedule with a session that needs a projector, for a        *)
(* request that also offered a venue without one.                          *)
C6_Witness ==
    /\ FeasibleSchedule
    /\ \E k \in 1..Len(response.sessions) :
         /\ "projector" \in
              CourseById(request.entities.courses,
                         response.sessions[k].course_id).required_equipment
         /\ \E v \in Range(request.entities.venues) : "projector" \notin v.equipment

(* C7: for every input whose course ids are distinct, a schedule solve     *)
(* returns with is_feasible = true has exactly frequency sessions for each *)
(* course, all session ids pairwise distinct, and no session of any other  *)
(* course.                                                                 *)
C7_FrequencySessions ==
    (FeasibleSchedule /\ DistinctCourseIds(request)) =>
        /\ \A c \in Range(request.entities.courses) :
              Cardinality({k \in 1..Len(response.sessions) :
                              response.sessions[k].course_id = c.id}) = c.frequency
        /\ \A p \in SessionPairs(response.sessions) :
              response.sessions[p[1]].id # response.sessions[p[2]].id
        /\ \A k \in 1..Len(response.sessions) :
              \E c \in Range(request.entities.courses) :
                  response.sessions[k].course_id = c.id

(* A feasible schedule for a course that asks for two sessions a week.     *)
C7_Witness ==
    /\ FeasibleSchedule
    /\ DistinctCourseIds(request)
    /\ \E c \in Range(request.entities.courses) : c.frequency = 2
    /\ Len(response.sessions) >= 2

----------------------------------------------------------------------------
(* Infeasible requests                                                     *)

(* The hard rules of a schedule (capacity, equipment, availability, no     *)
(* venue, lecturer or student-group collision), for the values a of the    *)
(* session variables.                                                      *)
MeetsHardRules(ec, dict, a) ==
    /\ \A k \in 1..Len(dict) :
          LET course == CourseById(ec.entities.courses, dict[k].course_id)
              venue == ec.entities.venues[a[k].venue + 1]
              slot == ec.time_slots[a[k].time + 1]
          IN  /\ venue.capacity >= SizeOfGroups(ec, course.student_groups)
              /\ course.required_equipment \subseteq venue.equipment
              /\ Covers(ec.entities.lecturers[a[k].lecturer + 1],
                        slot.day_of_week, slot.hour)
    /\ \A i, j \in 1..Len(dict) :
          (i # j /\ a[i].time = a[j].time) =>
              /\ a[i].venue # a[j].venue
              /\ a[i].lecturer # a[j].lecturer
              /\ CourseById(ec.entities.courses, dict[i].course_id).student_groups
                   \cap CourseById(ec.entities.courses, dict[j].course_id).student_groups
                     = {}

NoAssignmentMeetsHardRules(ec, dict) ==
    ~\E a \in [1..Len(dict) -> VarDomain(ec)] : MeetsHardRules(ec, dict, a)

(* C8: when no assignment can satisfy the hard rules, solve returns        *)
(* is_feasible = false with no sessions and a conflict of type             *)
(* infeasible_problem that carries a suggestion.                           *)
C8_InfeasibleReported ==
    (SolveReturned /\ NoAssignmentMeetsHardRules(request, variables)) =>
        /\ response.is_feasible = FALSE
        /\ response.sessions = <<>>
        /\ \E c \in Range(response.conflicts) :
              c.type = "infeasible_problem" /\ "suggestion" \in DOMAIN c

----------------------------------------------------------------------------
(* Properties of validate_solution                                         *)

VenueCollision(s1, s2) == s1.venue_id = s2.venue_id /\ SameSlot(s1, s2)

LecturerCollision(s1, s2) == s1.lecturer_id = s2.lecturer_id /\ SameSlot(s1, s2)

(* C9: validate_solution returns is_valid = false exactly when two         *)
(* sessions of the schedule share (venue_id, day_of_week, start hour) or   *)
(* (lecturer_id, day_of_week, start hour); it then lists a                 *)
(* venue_double_booking or lecturer_double_booking conflict for each such  *)
(* collision (naming the later session of the pair), and nothing else;     *)
(* otherwise is_valid = true and conflicts is empty.                       *)
C9_ValidateDoubleBookings ==
    ValidateReturned =>
        LET sessions == request.sessions
            collide ==
                \E p \in SessionPairs(sessions) :
                    \/ VenueCollision(sessions[p[1]], sessions[p[2]])
                    \/ LecturerCollision(sessions[p[1]], sessions[p[2]])
        IN  /\ response.is_valid = ~collide
            /\ ~collide => response.conflicts = <<>>
            /\ \A p \in SessionPairs(sessions) :
                  (p[1] < p[2] /\ VenueCollision(sessions[p[1]], sessions[p[2]])) =>
                      \E c \in Range(response.conflicts) :
                          /\ c.type = "venue_double_booking"
                          /\ c.venue_id = sessions[p[2]].venue_id
                          /\ c.sessions = <<sessions[p[2]].id>>
            /\ \A p \in SessionPairs(sessions) :
                  (p[1] < p[2] /\ LecturerCollision(sessions[p[1]], sessions[p[2]])) =>
                      \E c \in Range(response.conflicts) :
                          /\ c.type = "lecturer_double_booking"
                          /\ c.lecturer_id = sessions[p[2]].lecturer_id
                          /\ c.sessions = <<sessions[p[2]].id>>
            /\ \A c \in Range(response.conflicts) :
                  \E p \in SessionPairs(sessions) :
                      /\ p[1] < p[2]
                      /\ c.sessions = <<sessions[p[2]].id>>
                      /\ \/ /\ c.type = "venue_double_booking"
                            /\ VenueCollision(sessions[p[1]], sessions[p[2]])
                         \/ /\ c.type = "lecturer_double_booking"
                            /\ LecturerCollision(sessions[p[1]], sessions[p[2]])

(* A schedule of three sessions, two in one venue and slot and two with    *)
(* one lecturer in one slot, found invalid.                                *)
C9_Witness ==
    /\ ValidateReturned
    /\ Len(request.sessions) = 3
    /\ ~response.is_valid
    /\ \E c \in Range(response.conflicts) : c.type = "venue_double_booking"
    /\ \E c \in Range(response.conflicts) : c.type = "lecturer_double_booking"
    /\ \E p \in SessionPairs(request.sessions) :
          /\ request.sessions[p[1]].start_hour = request.sessions[p[2]].start_hour
          /\ request.sessions[p[1]].day_of_week # request.sessions[p[2]].day_of_week

(* C10: validate_solution returns is_valid = false, with a conflict for    *)
(* it, for every schedule in which one student group attends two sessions  *)
(* on the same day and start hour, also when the two sessions use          *)
(* different venues and lecturers.                                         *)
C10_ValidateGroupOverlap ==
    ValidateReturned =>
        \A p \in SessionPairs(request.sessions) :
            LET s1 == request.sessions[p[1]]
                s2 == request.sessions[p[2]]
            IN  (s1.student_groups \cap s2.student_groups # {} /\ SameSlot(s1, s2)) =>
                    /\ ~response.is_valid
                    /\ response.conflicts # <<>>

(* C11: validate_solution on a schedule with no sessions returns is_valid  *)
(* = true, an empty conflicts list and score 0, whatever the schedule's    *)
(* is_feasible flag is.                                                    *)
C11_EmptyScheduleScoreZero ==
    (ValidateReturned /\ request.sessions = <<>>) =>
        /\ response.is_valid
        /\ response.conflicts = <<>>
        /\ response.score = 0

----------------------------------------------------------------------------
(* Properties of calls that share the instance                             *)

(* What solve returns on a fresh instance for this input.                  *)
FreshResults(ec, float_rejected) ==
    UNION {SolveResults(ec, create_variables(ec), float_rejected, today) :
              today \in 1..MaxDate}

CallReturned(c) == calls # <<>> /\ calls[c].pc = "done"

(* C12: requests do not affect one another through the shared instance:    *)
(* after any earlier calls, and for any interleaving of two solve calls on *)
(* the one CSPSolver, each solve returns what it would return on a fresh   *)
(* instance given the same input.                                          *)
C12_CallsIndependent ==
    \A c \in Calls :
        (op = "shared" /\ CallReturned(c)) =>
            calls[c].response
                \in FreshResults(calls[c].request, calls[c].float_rejected)

(* C13: two solve calls with the same encoded input and the same time      *)
(* budget return the same schedule (for every session id the same venue,   *)
(* lecturer, day, hour and start/end times) and the same score.            *)
C13_SolveDeterministic ==
    (/\ op = "repeat"
     /\ \A c \in Calls : CallReturned(c)
     /\ calls[1].request = calls[2].request) =>
        /\ calls[1].response.sessions = calls[2].response.sessions
        /\ calls[1].response.score = calls[2].response.score

----------------------------------------------------------------------------
(* Properties of the ConflictAnalyzer                                      *)

SuggestReturned == op = "suggest" /\ response # None /\ ~IsRaised(response)

(* The suggestions of a response of a given type.                          *)
SuggestionsOfType(types) ==
    {k \in 1..Len(response.returned) : response.returned[k].resolution_type \in types}

(* Two sessions of the schedule share a venue and a slot.                  *)
SharesVenueAndSlot(solution) ==
    \E p \in SessionPairs(solution.sessions) :
        /\ solution.sessions[p[1]].venue_id = solution.sessions[p[2]].venue_id
        /\ SameSlot(solution.sessions[p[1]], solution.sessions[p[2]])

(* The entities offer a session another suitable venue, or the week has a  *)
(* free slot for it.                                                       *)
OffersAlternative(solution, entities) ==
    \E k \in 1..Len(solution.sessions) :
        \/ find_alternative_venues(solution.sessions[k], IndexById(entities.venues),
                                   entities) # <<>>
        \/ find_alternative_times(solution.sessions[k], solution.sessions) # <<>>

(* C14: for a schedule in which two sessions share a venue and slot, with  *)
(* entities that offer another suitable venue or a free slot, the          *)
(* conflicts validate_solution returns, passed unchanged to                *)
(* generate_resolution_suggestions (which is asked for at least one        *)
(* suggestion), yield a suggestion of type reassign_venue or reschedule.   *)
C14_ValidatorConflictsYieldSuggestion ==
    (/\ op = "suggest"
     /\ response # None
     /\ SharesVenueAndSlot(request.solution)
     /\ request.conflicts = validate_solution(request.solution).conflicts
     /\ OffersAlternative(request.solution, request.entities)
     /\ request.max_suggestions >= 1) =>
        /\ ~IsRaised(response)
        /\ SuggestionsOfType({"reassign_venue", "reschedule"}) # {}

(* Every suggestion the strategies produce for the request, before the     *)
(* ranking.                                                                *)
AllSuggestions ==
    all_suggestions_from(<<>>, group_conflicts_by_type(request.conflicts), 1, 1,
                         request.solution, request.entities).returned

(* low before medium before high                                           *)
EffortRank(effort_level) ==
    CHOOSE r \in 1..3 : <<"low", "medium", "high">>[r] = effort_level

(* x belongs strictly ahead of y: a higher score, or the same score and    *)
(* less effort.                                                            *)
Outranks(x, y) ==
    \/ x.score > y.score
    \/ x.score = y.score /\ EffortRank(x.effort_level) < EffortRank(y.effort_level)

(* C15: generate_resolution_suggestions returns at most max_suggestions    *)
(* suggestions, all of them produced for the request, ordered by score     *)
(* from highest to lowest and, at equal score, by effort low, medium,      *)
(* high; no suggestion left out outranks one that is returned.             *)
C15_TopSuggestionsRanked ==
    SuggestReturned =>
        LET returned == response.returned
        IN  /\ Len(returned) <= request.max_suggestions
            /\ \A k \in 1..Len(returned) :
                  CountOf(returned, returned[k]) <= CountOf(AllSuggestions, returned[k])
            /\ \A i, j \in 1..Len(returned) :
                  i < j => ~Outranks(returned[j], returned[i])
            /\ \A i \in 1..Len(AllSuggestions) : \A k \in 1..Len(returned) :
                  Outranks(AllSuggestions[i], returned[k]) =>
                      CountOf(returned, AllSuggestions[i])
                          = CountOf(AllSuggestions, AllSuggestions[i])

(* C15 witness: more suggestions are produced than asked for, and the two  *)
(* at the head of the answer have the same score, the low-effort one       *)
(* first although the strategies produced it later.                        *)
C15_Witness ==
    /\ SuggestReturned
    /\ request.max_suggestions >= 2
    /\ Len(response.returned) = request.max_suggestions
    /\ Len(AllSuggestions) > request.max_suggestions
    /\ response.returned[1].score = response.returned[2].score
    /\ response.returned[1].effort_level = "low"
    /\ response.returned[2].effort_level = "medium"
    /\ \E i, j \in 1..Len(AllSuggestions) :
          /\ i < j
          /\ AllSuggestions[i] = response.returned[2]
          /\ AllSuggestions[j] = response.returned[1]

FindTimesReturned == op = "find_times" /\ response # None

(* The (day, hour) pairs a returned text can stand for.                    *)
NamedSlots == [day : 0..(WeekDays - 1), hour : 0..23]

(* A session of the schedule at the slot uses the session's venue, its     *)
(* lecturer or one of its student groups.                                  *)
CollidesAt(session, all_sessions, slot) ==
    \E k \in 1..Len(all_sessions) :
        /\ all_sessions[k].day_of_week = slot.day
        /\ all_sessions[k].start_hour = slot.hour
        /\ \/ all_sessions[k].venue_id = session.venue_id
           \/ all_sessions[k].lecturer_id = session.lecturer_id
           \/ all_sessions[k].student_groups \cap session.student_groups # {}

(* C16: every slot _find_alternative_times returns for a session differs   *)
(* from the session's current slot, and no session of the supplied         *)
(* schedule at that (day, hour) uses the session's venue, its lecturer or  *)
(* any of its student groups.                                              *)
C16_AlternativeTimesFree ==
    FindTimesReturned =>
        /\ \A k \in 1..Len(response.returned) :
              \E slot \in NamedSlots : response.returned[k] = TimeStr(slot.day, slot.hour)
        /\ \A slot \in NamedSlots :
              TimeStr(slot.day, slot.hour) \in Range(response.returned) =>
                  /\ ~(slot.day = request.session.day_of_week
                       /\ slot.hour = request.session.start_hour)
                  /\ ~CollidesAt(request.session, request.solution.sessions, slot)

(* C16 witness: another session has only a student group in common with    *)
(* the session, at Monday 10:00; that slot is passed over and later ones   *)
(* are returned.                                                           *)
C16_Witness ==
    /\ FindTimesReturned
    /\ request.session.day_of_week = 0 /\ request.session.start_hour = 9
    /\ \E k \in 1..Len(request.solution.sessions) :
          LET other_session == request.solution.sessions[k]
          IN  /\ other_session.day_of_week = 0 /\ other_session.start_hour = 10
              /\ other_session.venue_id # request.session.venue_id
              /\ other_session.lecturer_id # request.session.lecturer_id
              /\ other_session.student_groups \cap request.session.student_groups # {}
    /\ response.returned = <<TimeStr(0, 11), TimeStr(0, 12), TimeStr(0, 13),
                             TimeStr(0, 14), TimeStr(0, 15)>>

(* The session of the schedule a suggestion is about.                      *)
SessionOf(suggestion) ==
    LET k == CHOOSE i \in 1..Len(request.solution.sessions) :
                request.solution.sessions[i].id = suggestion.parameters.session_id
    IN  request.solution.sessions[k]

(* The venue fits the session: it is another venue, large enough for the   *)
(* session's student groups, with the equipment the course requires.       *)
VenueFits(venue, session, entities) ==
    LET course == Lookup(IndexById(entities.courses), session.course_id)
    IN  /\ venue # None
        /\ venue.id # session.venue_id
        /\ venue.capacity >= required_capacity(session.student_groups,
                                               IndexById(entities.student_groups))
        /\ course # None => course.required_equipment \subseteq venue.equipment

(* C17: every reassign_venue suggestion generate_resolution_suggestions    *)
(* returns, for any conflict kind, names a new_venue_id that exists in the *)
(* entities, differs from the session's current venue, has capacity for    *)
(* the session's student groups and has the equipment the course requires. *)
C17_ReassignedVenueFits ==
    SuggestReturned =>
        \A k \in SuggestionsOfType({"reassign_venue"}) :
            VenueFits(Lookup(IndexById(request.entities.venues),
                             response.returned[k].parameters.new_venue_id),
                      SessionOf(response.returned[k]), request.entities)

AnalyzeReturned == op = "analyze" /\ response # None /\ ~IsRaised(response)

(* The kind of a conflict is its type, 'unknown' when it has none.         *)
KindOf(conflict) == IF "type" \in DOMAIN conflict THEN conflict.type ELSE "unknown"

(* The conflicts of the request of kind k, and the reported patterns       *)
(* named k.                                                                *)
ConflictsOfKind(k) ==
    {i \in 1..Len(request.conflicts) : KindOf(request.conflicts[i]) = k}

PatternsNamed(k) ==
    {i \in 1..Len(response.returned.patterns) :
        response.returned.patterns[i].conflict_type = k}

AnalyzedKinds == {"venue_double_booking", "lecturer_conflict", "unknown"}

(* C18: analyze_conflicts reports a pattern for the conflict kind k        *)
(* exactly when at least two conflicts of the list have kind k, with       *)
(* frequency equal to that number; a kind that occurs once yields none.    *)
C18_PatternIffKindRepeats ==
    AnalyzeReturned =>
        \A k \in AnalyzedKinds :
            IF Cardinality(ConflictsOfKind(k)) >= 2
            THEN /\ Cardinality(PatternsNamed(k)) = 1
                 /\ \A i \in PatternsNamed(k) :
                       response.returned.patterns[i].frequency
                           = Cardinality(ConflictsOfKind(k))
            ELSE PatternsNamed(k) = {}

(* C18 witness: one kind occurs twice and is reported with frequency 2,    *)
(* another occurs once and is not reported, next to an entity hotspot.     *)
C18_Witness ==
    /\ AnalyzeReturned
    /\ Cardinality(ConflictsOfKind("venue_double_booking")) = 2
    /\ Cardinality(ConflictsOfKind("lecturer_conflict")) = 1
    /\ \E i \in PatternsNamed("venue_double_booking") :
          response.returned.patterns[i].frequency = 2
    /\ PatternsNamed("lecturer_conflict") = {}
    /\ Len(response.returned.patterns) = 2

EvaluateReturned == op = "evaluate" /\ response # None /\ ~IsRaised(response)

(* C19: evaluate_suggestion_quality recommends "approve" exactly when the  *)
(* overall_score it reports is at least 0.7 and the risk level it reports  *)
(* is not high, and "review" in every other case.                          *)
C19_ApproveIffScoreAndRisk ==
    EvaluateReturned =>
        response.returned.recommendation =
            IF /\ 10 * response.returned.overall_score >= 7 * ScoreOne
               /\ response.returned.risk_assessment.level # "high"
            THEN "approve" ELSE "review"

(* C19 witness: a suggestion whose reported overall_score is at least 0.7  *)
(* is sent to review because its risk is high.                             *)
C19_Witness ==
    /\ EvaluateReturned
    /\ 10 * response.returned.overall_score >= 7 * ScoreOne
    /\ response.returned.risk_assessment.level = "high"
    /\ response.returned.recommendation = "review"

(* C20: analyze_conflicts, generate_resolution_suggestions and             *)
(* evaluate_suggestion_quality return a result without raising for every   *)
(* input: conflicts without a type or session ids, conflicts that name     *)
(* sessions that do not exist, lecturers whose availability for a day is a *)
(* list of intervals or a boolean.                                         *)
C20_AnalyzerNeverRaises ==
    (op \in {"analyze", "suggest", "evaluate"} /\ response # None) =>
        ~IsRaised(response)

(* The impact text of a suggestion contains "multiple": only that of the   *)
(* student-group split ("Creates multiple parallel sessions") does.        *)
MentionsMultiple(suggestion) ==
    suggestion.resolution_id \in {"split_groups_" \o id : id \in {"s1", "s2"}}

(* The suggestions the strategies produced under the id of a returned one; *)
(* their score is the strategy's base score.                               *)
ProducedAs(suggestion) ==
    {i \in 1..Len(AllSuggestions) :
        AllSuggestions[i].resolution_id = suggestion.resolution_id}

(* C23: the score of every suggestion generate_resolution_suggestions      *)
(* returns is the strategy's base score after the multi-factor adjustment: *)
(* clamp to [0, 1] of base + min(1, conflicts_resolved / 5) + type bonus   *)
(* - effort penalty - 0.05 when the impact text mentions "multiple".       *)
C23_ScoreIsEnhanced ==
    SuggestReturned =>
        \A k \in 1..Len(response.returned) :
            \A i \in ProducedAs(response.returned[k]) :
                response.returned[k].score =
                    calculate_enhanced_score(AllSuggestions[i],
                                             MentionsMultiple(AllSuggestions[i]))

(* Monday..Friday and, within each day, the hours 8..17 except 12.         *)
ScannedHours == <<8, 9, 10, 11, 13, 14, 15, 16, 17>>

ScannedSlots ==
    [i \in 1..(WeekDays * Len(ScannedHours)) |->
        [day  |-> (i - 1) \div Len(ScannedHours),
         hour |-> ScannedHours[((i - 1) % Len(ScannedHours)) + 1]]]

(* The first usable slots of that scan, at most five: not the session's    *)
(* current slot, and free of its venue, lecturer and student groups.       *)
FirstUsableSlots(session, all_sessions) ==
    Take(FilterSeq(ScannedSlots,
                   LAMBDA slot :
                     /\ ~(slot.day = session.day_of_week
                          /\ slot.hour = session.start_hour)
                     /\ ~CollidesAt(session, all_sessions, slot)),
         5)

(* C24: _find_alternative_times scans Monday..Friday and, within each day, *)
(* the hours 8..17 except 12, skips the session's current slot and returns *)
(* the first usable slots in that order, at most 5: never a 12:00 slot,    *)
(* and 08:00 and 17:00 when they are usable.                               *)
C24_ScansEightToFiveExceptNoon ==
    FindTimesReturned =>
        LET expected == FirstUsableSlots(request.session, request.solution.sessions)
        IN  response.returned
                = [k \in 1..Len(expected) |-> TimeStr(expected[k].day, expected[k].hour)]

(* The request holds availability_violation conflicts only, and the        *)
(* session they name first exists, its lecturer has a free available slot  *)
(* and its course has an eligible alternative lecturer.                    *)
AvailabilityCase(session) ==
    /\ request.conflicts # <<>>
    /\ \A i \in 1..Len(request.conflicts) :
          /\ conflict_type_of(request.conflicts[i]) = "availability_violation"
          /\ affected_sessions_of(request.conflicts[i], request.solution) # <<>>
          /\ affected_sessions_of(request.conflicts[i], request.solution)[1] = session
    /\ LET lecturer == Lookup(IndexById(request.entities.lecturers), session.lecturer_id)
           course == Lookup(IndexById(request.entities.courses), session.course_id)
       IN  /\ lecturer # None
           /\ course # None
           /\ \E day \in DOMAIN lecturer.availability :
                 /\ lecturer.availability[day].type = "dict"
                 /\ Get(lecturer.availability[day].value, "available", FALSE)
           /\ \A day \in DOMAIN lecturer.availability :
                 lecturer.availability[day].type = "dict"
           /\ find_alternative_lecturers(course, IndexById(request.entities.lecturers),
                                         request.solution.sessions) # <<>>

(* C25: for an availability_violation conflict whose session exists, whose *)
(* lecturer has a free available slot and whose course has an eligible     *)
(* alternative lecturer, generate_resolution_suggestions, asked for        *)
(* enough suggestions, returns a reschedule and a reassign_lecturer        *)
(* suggestion for that session.                                            *)
C25_AvailabilityRescheduleAndReassign ==
    SuggestReturned =>
        \A k \in 1..Len(request.solution.sessions) :
            LET session == request.solution.sessions[k]
            IN  (/\ AvailabilityCase(session)
                 /\ request.max_suggestions >= 2 * Len(request.conflicts)) =>
                    \A type \in {"reschedule", "reassign_lecturer"} :
                        \E i \in SuggestionsOfType({type}) :
                            response.returned[i].affected_sessions = <<session.id>>

AlternativesReturned ==
    op = "alternatives" /\ response # None /\ ~IsRaised(response)

(* A session id named by two different suggestions of the path             *)
SharesSession(path) ==
    \E i, j \in 1..Len(path) :
        /\ i < j
        /\ Range(path[i].affected_sessions) \cap Range(path[j].affected_sessions) # {}

(* C26: generate_multiple_alternatives returns at most num_alternatives    *)
(* paths, and within a path no session id appears in the affected_sessions *)
(* of two suggestions.                                                     *)
C26_PathsDisjointInSessions ==
    AlternativesReturned =>
        /\ Len(response.returned) <= request.num_alternatives
        /\ \A p \in 1..Len(response.returned) : ~SharesSession(response.returned[p])

ConflictsAffecting(entity) ==
    {i \in 1..Len(request.conflicts) :
        entity \in Range(Get(request.conflicts[i], "affected_entities", <<>>))}

HotspotsOf(entity) == PatternsNamed("entity_hotspot_" \o entity)

AnalyzedEntities == {VenueId(1), LecturerId(1)}

(* C27: analyze_conflicts reports an entity-hotspot pattern for entity e   *)
(* exactly when e is an affected entity of at least three conflicts of the *)
(* list, and the frequency of the pattern is the number of those conflicts.*)
C27_HotspotIffThreeConflicts ==
    AnalyzeReturned =>
        \A e \in AnalyzedEntities :
            IF Cardinality(ConflictsAffecting(e)) >= 3
            THEN /\ Cardinality(HotspotsOf(e)) = 1
                 /\ \A i \in HotspotsOf(e) :
                       response.returned.patterns[i].frequency
                           = Cardinality(ConflictsAffecting(e))
            ELSE HotspotsOf(e) = {}

(* C28: the risk assessment of a suggestion is high whenever the           *)
(* confidence of the suggestion is below 0.5, whatever its effort level,   *)
(* its kind and the number of its affected sessions.                       *)
C28_LowConfidenceIsHighRisk ==
    EvaluateReturned =>
        (10 * request.suggestion.confidence < 5 * ScoreOne
            => response.returned.risk_assessment.level = "high")

EncodeDone == op = "encode" /\ response # None

EncodeReturned == EncodeDone /\ ~IsRaised(response)

(* C21: encode_constraints returns an encoded problem for every input and  *)
(* never raises; malformed values (day keys that are unknown or not        *)
(* strings, missing fields) are replaced by defaults.                      *)
C21_EncodeNeverRaises ==
    EncodeDone =>
        /\ ~IsRaised(response)
        /\ \A kind \in DOMAIN request.entities :
              Len(response.returned.entities[kind]) = Len(request.entities[kind])
        /\ \A i \in 1..Len(response.returned.entities.lecturers) :
              WeekdayKeys \subseteq
                  DOMAIN response.returned.entities.lecturers[i].availability

(* The intervals the input supplies for a day: the elements of a list, or  *)
(* the single dict                                                         *)
SuppliedIntervals(day_availability) ==
    IF day_availability.type = "list" THEN Range(day_availability.value)
    ELSE IF day_availability.type = "dict" THEN {day_availability.value}
    ELSE {}

(* C29: availability normalisation loses nothing: for each weekday the     *)
(* normalised list holds every interval the input supplied under any key   *)
(* that maps to that weekday, so the intervals of one key are never        *)
(* replaced by those of another key.                                       *)
C29_NormalisationLosesNothing ==
    EncodeReturned =>
        \A i \in 1..Len(request.entities.lecturers) :
            LET items == Get(request.entities.lecturers[i], "availability",
                             AsDict(<<>>)).value
                normalized == response.returned.entities.lecturers[i].availability
            IN  \A k \in 1..Len(items) :
                    SuppliedIntervals(items[k].value) \subseteq
                        Range(normalized[ToString(parse_day_key(items[k].key).returned)])

(* C30: solve never raises: every call returns a result, and a result with *)
(* is_feasible = false has no sessions, score 0 and exactly one conflict,  *)
(* of type infeasible_problem (the search found no assignment) or          *)
(* solver_error (an exception while the model was built or solved).        *)
C30_SolveNeverRaises ==
    SolveReturned =>
        /\ "raised" \notin DOMAIN response
        /\ ~response.is_feasible =>
              /\ response.sessions = <<>>
              /\ response.score = 0
              /\ Len(response.conflicts) = 1
              /\ response.conflicts[1].type \in {"infeasible_problem", "solver_error"}

(* C30 witness: an exception raised while the soft constraints were added  *)
(* has ended solve with a solver_error result.                             *)
C30_Witness ==
    /\ SolveReturned
    /\ \E float_rejected \in BOOLEAN :
          RaisesNameError(request, variables, float_rejected)
    /\ ~response.is_feasible
    /\ response.sessions = <<>>
    /\ response.conflicts[1].type = "solver_error"

====
